---------------------------- MODULE Spec2Model ----------------------------
(***************************************************************************)
(* Event admission pipeline of the relay: EventMessageHandler.handleMessage *)
(* (src/src/handlers/event-message-handler.ts) and the UserRepository it    *)
(* consults (src/unnamed/part_000, lines 202-470).                          *)
(*                                                                          *)
(* One connection runs handleMessage as a sequence of steps, one step per   *)
(* await of the handler and of the repository methods it calls.  Each       *)
(* external call (cache, datastore, webhook, strategy) answers with one of  *)
(* the outcomes it can produce, a thrown error included.                    *)
(***************************************************************************)
EXTENDS Integers, Sequences, FiniteSets, TLC

VARIABLES
  settings,      \* what the handler's settings() getter returns now
  repoSettings,  \* UserRepository.settings, read once at construction
  env,           \* process.env
  now,           \* the clock (Date.now())
  users,         \* the users table: pubkey -> row
  cache,         \* the cache: pubkey -> the <pubkey>:is-blocked entry
  rateStore,     \* the rate limiter: key -> timestamps of the hits counted
  run,           \* per connection: the position and locals of handleMessage
  budget,        \* per connection: messages the client may still send
  passLog,       \* history: submissions that passed the rate-limiting stage
  ledger,        \* history: per pubkey, the balance updates the table applied
  http           \* the GET /user request in flight and its response

vars == <<settings, repoSettings, env, now, users, cache, rateStore, run,
          budget, passLog, ledger, http>>

----------------------------------------------------------------------------
(* Bounds of the model *)

MaxRuns == 2        \* messages per connection (pipeline specification)
MaxRateRuns == 4    \* messages per connection (rate-limit specification)
MaxTime == 4        \* the clock stops advancing here
MaxCacheRuns == 3   \* messages per connection (cache specification)
MaxSharedRuns == 1  \* messages per connection (shared-pubkey specification)
MaxCacheTime == 121 \* the clock of the cache specification stops here

Conns == {"c1", "c2"}

\* IWebSocketAdapter.getClientAddress()
getClientAddress(c) == IF c = "c1" THEN "10.0.0.1" ELSE "10.0.0.2"

\* Pubkeys and event ids are hex strings, kept as sequences of hex digits.
PubA == <<0, 1>>
PubB == <<8, 2>>
Pubkeys == {PubA, PubB}

Undefined == "undefined"

----------------------------------------------------------------------------
(* Helpers from utils/event *)

\* A kind matcher is an exact kind or an inclusive [lo, hi] range.
Exact(k) == [range |-> FALSE, lo |-> k, hi |-> k]
Range(lo, hi) == [range |-> TRUE, lo |-> lo, hi |-> hi]

isEventKindOrRangeMatch(event, item) ==
  IF item.range THEN event.kind >= item.lo /\ event.kind <= item.hi
  ELSE event.kind = item.lo

SomeKindMatch(event, kinds) ==
  \E i \in 1..Len(kinds) : isEventKindOrRangeMatch(event, kinds[i])

\* 'abc'.startsWith(prefix)
startsWith(s, prefix) ==
  /\ Len(prefix) <= Len(s)
  /\ \A i \in 1..Len(prefix) : s[i] = prefix[i]

SomePrefixMatch(pubkey, prefixes) ==
  \E i \in 1..Len(prefixes) : startsWith(pubkey, prefixes[i])

Includes(list, x) == \E i \in 1..Len(list) : list[i] = x

\* Leading zero bits of one hex digit.
NibbleZeroBits(d) ==
  IF d = 0 THEN 4 ELSE IF d = 1 THEN 3 ELSE IF d <= 3 THEN 2
  ELSE IF d <= 7 THEN 1 ELSE 0

\* Leading zero bits of a hex string read as a big-endian integer.
RECURSIVE LeadingZeroBits(_)
LeadingZeroBits(hex) ==
  IF hex = <<>> THEN 0
  ELSE IF Head(hex) = 0 THEN 4 + LeadingZeroBits(Tail(hex))
  ELSE NibbleZeroBits(Head(hex))

getEventProofOfWork(id) == LeadingZeroBits(id)
getPubkeyProofOfWork(pubkey) == LeadingZeroBits(pubkey)

\* The expiration tag's value, 0 when the event carries none.
getEventExpiration(event) == event.expiration

isExpiredEvent(event, t) ==
  getEventExpiration(event) # 0 /\ getEventExpiration(event) <= t

\* createCommandResult(event.id, accepted, reason)
createCommandResult(id, accepted, reason) ==
  [type |-> "OK", id |-> id, accepted |-> accepted, reason |-> reason]

----------------------------------------------------------------------------
(* Settings *)

ContentLimit(maxLength, hasKinds, kinds) ==
  [maxLength |-> maxLength, hasKinds |-> hasKinds, kinds |-> kinds]

RateLimit(period, rate, hasKinds, kinds) ==
  [period |-> period, rate |-> rate, hasKinds |-> hasKinds, kinds |-> kinds]

FeeSchedule(enabled, amount, whitelistPubkeys) ==
  [enabled |-> enabled, amount |-> amount,
   whitelists |-> [pubkeys |-> whitelistPubkeys]]

\* limits.event with every optional field absent (0 and <<>> stand for a
\* missing number and a missing list).
NoEventLimits ==
  [content    |-> [isArray |-> FALSE, items |-> <<>>],
   createdAt  |-> [maxPositiveDelta |-> 0, maxNegativeDelta |-> 0],
   eventId    |-> [minLeadingZeroBits |-> 0],
   pubkey     |-> [minLeadingZeroBits |-> 0, whitelist |-> <<>>,
                   blacklist |-> <<>>, minBalance |-> 0],
   kind       |-> [whitelist |-> <<>>, blacklist |-> <<>>],
   rateLimits |-> <<>>,
   whitelists |-> [pubkeys |-> <<>>, ipAddresses |-> <<>>]]

Webhooks(pubkeyChecks, topUps, eventChecks, eventCallbacks) ==
  [pubkeyChecks |-> pubkeyChecks, topUps |-> topUps,
   eventChecks |-> eventChecks, eventCallbacks |-> eventCallbacks,
   endpoints |-> [baseURL |-> TRUE, pubkeyCheck |-> TRUE, eventCheck |-> TRUE,
                  eventCallback |-> TRUE, topUps |-> TRUE]]

Payments(enabled, admission, publication, topUp) ==
  [enabled |-> enabled,
   feeSchedules |-> [admission |-> admission, publication |-> publication,
                     topUp |-> topUp]]

Settings(eventLimits, payments, webhooks) ==
  [limits |-> [event |-> eventLimits], payments |-> payments,
   webhooks |-> webhooks]

----------------------------------------------------------------------------
(* Policy evaluator: EventMessageHandler.canAcceptEvent *)

ContentViolated(event, limit) ==
  /\ limit.maxLength > 0
  /\ event.contentLength > limit.maxLength
  /\ (~limit.hasKinds \/ SomeKindMatch(event, limit.kinds))

\* Mutant: the last violated content record gives the reason.
FirstContentViolation_Last(event, items) ==
  LET bad == {i \in 1..Len(items) : ContentViolated(event, items[i])}
  IN IF bad = {} THEN 0 ELSE CHOOSE i \in bad : \A j \in bad : i >= j

\* Index of the first content record the event violates, 0 if none.
FirstContentViolation(event, items) ==
  LET bad == {i \in 1..Len(items) : ContentViolated(event, items[i])}
  IN IF bad = {} THEN 0 ELSE CHOOSE i \in bad : \A j \in bad : i <= j

canAcceptEvent(event, limits, t) ==
  LET c == FirstContentViolation(event, limits.content.items) IN
  IF c # 0
    THEN "rejected: content is longer than "
           \o ToString(limits.content.items[c].maxLength) \o " bytes"
  ELSE IF /\ limits.createdAt.maxPositiveDelta > 0
          /\ event.created_at > t + limits.createdAt.maxPositiveDelta
    THEN "rejected: created_at is more than "
           \o ToString(limits.createdAt.maxPositiveDelta)
           \o " seconds in the future"
  ELSE IF /\ limits.createdAt.maxNegativeDelta > 0
          /\ event.created_at < t - limits.createdAt.maxNegativeDelta
    THEN "rejected: created_at is more than "
           \o ToString(limits.createdAt.maxNegativeDelta)
           \o " seconds in the past"
  ELSE IF /\ limits.eventId.minLeadingZeroBits > 0
          /\ getEventProofOfWork(event.id) < limits.eventId.minLeadingZeroBits
    THEN "pow: difficulty " \o ToString(getEventProofOfWork(event.id))
           \o "<" \o ToString(limits.eventId.minLeadingZeroBits)
  ELSE IF /\ limits.pubkey.minLeadingZeroBits > 0
          /\ getPubkeyProofOfWork(event.pubkey)
               < limits.pubkey.minLeadingZeroBits
    THEN "pow: pubkey difficulty "
           \o ToString(getPubkeyProofOfWork(event.pubkey))
           \o "<" \o ToString(limits.pubkey.minLeadingZeroBits)
  ELSE IF /\ Len(limits.pubkey.whitelist) > 0
          /\ ~SomePrefixMatch(event.pubkey, limits.pubkey.whitelist)
    THEN "blocked: pubkey not allowed"
  ELSE IF /\ Len(limits.pubkey.blacklist) > 0
          /\ SomePrefixMatch(event.pubkey, limits.pubkey.blacklist)
    THEN "blocked: pubkey not allowed"
  ELSE IF /\ Len(limits.kind.whitelist) > 0
          /\ ~SomeKindMatch(event, limits.kind.whitelist)
    THEN "blocked: event kind " \o ToString(event.kind) \o " not allowed"
  ELSE IF /\ Len(limits.kind.blacklist) > 0
          /\ SomeKindMatch(event, limits.kind.blacklist)
    THEN "blocked: event kind " \o ToString(event.kind) \o " not allowed"
  ELSE Undefined

\* EventMessageHandler.isEventValid
isEventValid(event) ==
  IF ~event.idMatches THEN "invalid: event id does not match"
  ELSE IF ~event.signatureVerifies
    THEN "invalid: event signature verification failed"
  ELSE Undefined

\* EventMessageHandler.addExpirationMetadata
addExpirationMetadata(event) ==
  IF getEventExpiration(event) # 0
    THEN [event EXCEPT !.expiresAt = getEventExpiration(event)]
    ELSE event

----------------------------------------------------------------------------
(* The locals of one handleMessage run *)

Event(id, pubkey, kind, contentLength, idMatches, sigVerifies, expiration) ==
  [id |-> id, pubkey |-> pubkey, kind |-> kind, created_at |-> 1,
   contentLength |-> contentLength, idMatches |-> idMatches,
   signatureVerifies |-> sigVerifies, expiration |-> expiration,
   expiresAt |-> 0]

\* A row of the users table (DBUser); its pubkey is the key of the table.
NoUser ==
  [present |-> FALSE, isAdmitted |-> FALSE, balance |-> 0, createdAt |-> 0,
   updatedAt |-> 0, tosAcceptedAt |-> 0]
Row(isAdmitted, balance, createdAt, updatedAt, tosAcceptedAt) ==
  [present |-> TRUE, isAdmitted |-> isAdmitted, balance |-> balance,
   createdAt |-> createdAt, updatedAt |-> updatedAt,
   tosAcceptedAt |-> tosAcceptedAt]
\* A user, its dates not told.
User(isAdmitted, balance) == Row(isAdmitted, balance, 0, 0, 0)

\* No GET /user request is being served.
NoRequest ==
  [pc |-> "idle", token |-> Undefined, pubkey |-> Undefined, balance |-> 0,
   status |-> 0, body |-> Undefined, served |-> 0]

NoSettings ==
  Settings(NoEventLimits, Payments(FALSE, <<>>, <<>>, <<>>),
           Webhooks(FALSE, FALSE, FALSE, FALSE))

IdleRun ==
  [pc |-> "idle",
   event |-> Event(<<>>, <<>>, 0, 0, FALSE, FALSE, 0),
   rateLimits |-> <<>>, idx |-> 0, limited |-> FALSE, hits |-> <<>>,
   currentSettings |-> NoSettings, user |-> NoUser, fee |-> 0,
   response |-> [success |-> TRUE, reason |-> Undefined],
   acks |-> <<>>, strategyAcks |-> 0, trace |-> <<>>, rowAtEntry |-> NoUser,
   settingsAtEntry |-> NoSettings]

\* The locals when handleMessage is entered with event e; rowAtEntry and
\* settingsAtEntry keep the submitter's row and the settings of that moment
\* as history.
NewRun(e, row) ==
  [IdleRun EXCEPT !.pc = "isEventValid", !.event = e, !.rowAtEntry = row,
                  !.settingsAtEntry = settings]

\* The record of an operation the run performed, in order.
Did(r, op) == [r EXCEPT !.trace = Append(@, op)]
Goto(r, pc) == [r EXCEPT !.pc = pc]
\* this.webSocket.emit(Message, createCommandResult(event.id, false, reason))
Emit(r, reason) ==
  [r EXCEPT !.acks = Append(@, createCommandResult(r.event.id, FALSE, reason)),
            !.trace = Append(@, "emit")]
\* handleMessage returns
Return(r) == [r EXCEPT !.pc = "done"]
\* handleMessage rejects with the error an awaited call threw
Throw(r) == [r EXCEPT !.pc = "failed"]
\* The awaited call ended with outcome o: a thrown error is recorded.
Outcome(r, o) == IF o = "throw" THEN Did(r, "throw") ELSE r

Occurs(r, op) == \E i \in 1..Len(r.trace) : r.trace[i] = op
Count(r, op) == Cardinality({i \in 1..Len(r.trace) : r.trace[i] = op})

----------------------------------------------------------------------------
(* Sliding-window rate limiter: IRateLimiter.hit(key, 1, {period, rate}) *)

\* `${pubkey}:events:${period}` or `${pubkey}:events:${period}:${kinds}`
RateKey(pubkey, limit) ==
  [pubkey |-> pubkey, period |-> limit.period,
   kinds |-> IF limit.hasKinds THEN <<limit.kinds>> ELSE <<>>]

Hits(store, key) == IF key \in DOMAIN store THEN store[key] ELSE <<>>

RECURSIVE InWindow(_, _, _)
InWindow(stamps, t, period) ==
  IF stamps = <<>> THEN <<>>
  ELSE IF Head(stamps) > t - period
    THEN <<Head(stamps)>> \o InWindow(Tail(stamps), t, period)
    ELSE InWindow(Tail(stamps), t, period)

\* The store after the hit is counted at time t.
HitStore(store, key, t, period) ==
  [k \in DOMAIN store \cup {key} |->
     IF k = key THEN Append(InWindow(Hits(store, key), t, period), t)
     ELSE store[k]]

\* The hit's answer: the resulting count exceeds the rate.
HitLimited(store, key, t, period, rate) ==
  Len(HitStore(store, key, t, period)[key]) > rate

----------------------------------------------------------------------------
(* EventMessageHandler.handleMessage, stages 1 to 5 *)

\* Mutant: a message is dispatched while the previous one is still handled.
ConnectionIdle_Always(c) == TRUE

\* The connection hands its next message to handleMessage when the promise
\* of the previous call has settled.
ConnectionIdle(c) == run[c].pc \in {"idle", "done", "failed"}

HandleMessage(c, e) ==
  /\ ConnectionIdle(c)
  /\ budget[c] > 0
  /\ budget' = [budget EXCEPT ![c] = @ - 1]
  /\ run' = [run EXCEPT ![c] = NewRun(e, users[e.pubkey])]
  /\ UNCHANGED <<settings, repoSettings, env, now, users, cache, rateStore,
                 passLog, ledger, http>>

Validity(c) ==
  /\ run[c].pc = "isEventValid"
  /\ LET r == Did(run[c], "isEventValid")
         reason == isEventValid(r.event)
     IN run' = [run EXCEPT ![c] =
                  IF reason # Undefined THEN Return(Emit(r, reason))
                  ELSE Goto(r, "isExpiredEvent")]
  /\ UNCHANGED <<settings, repoSettings, env, now, users, cache, rateStore,
                 budget, passLog, ledger, http>>

Expiration(c) ==
  /\ run[c].pc = "isExpiredEvent"
  /\ LET r == Did(run[c], "isExpiredEvent")
     IN run' = [run EXCEPT ![c] =
                  IF isExpiredEvent(r.event, now)
                    THEN Return(Emit(r, "event is expired"))
                    ELSE Goto([r EXCEPT !.event = addExpirationMetadata(@)],
                              "isRateLimited")]
  /\ UNCHANGED <<settings, repoSettings, env, now, users, cache, rateStore,
                 budget, passLog, ledger, http>>

\* What the run knows of its hit on one rate-limit record: how many hits it
\* issued, when, and what the limiter answered.
NoHit == [n |-> 0, at |-> 0, limited |-> FALSE]

\* Mutant: the client address is not looked up on the whitelist.
RateLimitBypassed_PubkeyOnly(limits, event, c) ==
  \/ Len(limits.rateLimits) = 0
  \/ Includes(limits.whitelists.pubkeys, event.pubkey)

\* isRateLimited, lines 235-256: no records or a whitelisted submitter
\* answers false without a hit.
RateLimitBypassed(limits, event, c) ==
  \/ Len(limits.rateLimits) = 0
  \/ Includes(limits.whitelists.pubkeys, event.pubkey)
  \/ Includes(limits.whitelists.ipAddresses, getClientAddress(c))

RateLimitEnter(c) ==
  /\ run[c].pc = "isRateLimited"
  /\ LET r == Did(run[c], "isRateLimited")
         limits == settings.limits.event
     IN run' = [run EXCEPT ![c] =
                  IF RateLimitBypassed(limits, r.event, c)
                    THEN Goto(r, "canAcceptEvent")
                    ELSE [r EXCEPT !.pc = "hit",
                                   !.rateLimits = limits.rateLimits,
                                   !.idx = 1, !.limited = FALSE,
                                   !.hits = [i \in 1..Len(limits.rateLimits)
                                               |-> NoHit]]]
  /\ UNCHANGED <<settings, repoSettings, env, now, users, cache, rateStore,
                 budget, passLog, ledger, http>>

\* Mutant: the kinds filter is forgotten.
Applies_Always(limit, event) == TRUE

\* Mutant: only records without a kinds list are counted.
Applies_Unlisted(limit, event) == ~limit.hasKinds

\* Whether the record applies to the event's kind (line 277).
Applies(limit, event) == ~limit.hasKinds \/ SomeKindMatch(event, limit.kinds)

\* Mutant: the flag is assigned the last answer instead of being latched.
Limited_LastHit(limited, isRateLimited) == isRateLimited

\* The loop's flag after one more hit answered isRateLimited (lines 283-287).
Limited(limited, isRateLimited) == limited \/ isRateLimited

\* One iteration of the loop of lines 275-288.
RateLimitHit(c) ==
  /\ run[c].pc = "hit"
  /\ run[c].idx <= Len(run[c].rateLimits)
  /\ LET r == run[c]
         limit == r.rateLimits[r.idx]
         key == RateKey(r.event.pubkey, limit)
     IN IF Applies(limit, r.event)
          THEN /\ rateStore' = HitStore(rateStore, key, now, limit.period)
               /\ run' = [run EXCEPT ![c] =
                            [Did(r, "hit") EXCEPT
                               !.idx = @ + 1,
                               !.hits[r.idx] =
                                 [n |-> @.n + 1, at |-> now,
                                  limited |-> HitLimited(rateStore, key, now,
                                                         limit.period,
                                                         limit.rate)],
                               !.limited =
                                 Limited(@, HitLimited(rateStore, key, now,
                                                       limit.period,
                                                       limit.rate))]]
          ELSE /\ rateStore' = rateStore
               /\ run' = [run EXCEPT ![c] = [r EXCEPT !.idx = @ + 1]]
  /\ UNCHANGED <<settings, repoSettings, env, now, users, cache, budget,
                 passLog, ledger, http>>

\* What the run adds to the history when it passes the stage: one entry per
\* record it was counted against.
Passes(r) ==
  {[pubkey |-> r.event.pubkey, kind |-> r.event.kind, record |-> i,
    period |-> r.rateLimits[i].period, rate |-> r.rateLimits[i].rate,
    at |-> r.hits[i].at, n |-> Cardinality(passLog)] :
     i \in {j \in 1..Len(r.rateLimits) : r.hits[j].n > 0}}

\* The loop is over: lines 290 and 48-52.
RateLimitReturn(c) ==
  /\ run[c].pc = "hit"
  /\ run[c].idx > Len(run[c].rateLimits)
  /\ LET r == run[c]
     IN /\ run' = [run EXCEPT ![c] =
                     IF r.limited
                       THEN Return(Emit(r, "rate-limited: slow down"))
                       ELSE Goto(r, "canAcceptEvent")]
        /\ passLog' = IF r.limited THEN passLog ELSE passLog \cup Passes(r)
  /\ UNCHANGED <<settings, repoSettings, env, now, users, cache, rateStore,
                 budget, ledger, http>>

Policy(c) ==
  /\ run[c].pc = "canAcceptEvent"
  /\ LET r == Did(run[c], "canAcceptEvent")
         reason == canAcceptEvent(r.event, settings.limits.event, now)
     IN run' = [run EXCEPT ![c] =
                  IF reason # Undefined THEN Return(Emit(r, reason))
                  ELSE Goto(r, "isUserAdmitted")]
  /\ UNCHANGED <<settings, repoSettings, env, now, users, cache, rateStore,
                 budget, passLog, ledger, http>>

----------------------------------------------------------------------------
(* Stage 6: EventMessageHandler.isUserAdmitted and the UserRepository *)

\* Mutant: the fee schedule's whitelist is not consulted.
isApplicableFee_IgnoresWhitelist(feeSchedule, event) == feeSchedule.enabled

\* isApplicableFee, lines 299-301
isApplicableFee(feeSchedule, event) ==
  /\ feeSchedule.enabled
  /\ ~SomePrefixMatch(event.pubkey, feeSchedule.whitelists.pubkeys)

\* Lines 294-306: whether the run consults the repository at all.
AdmissionEngaged(currentSettings, event) ==
  /\ currentSettings.payments.enabled
  /\ \E i \in 1..Len(currentSettings.payments.feeSchedules.admission) :
       isApplicableFee(currentSettings.payments.feeSchedules.admission[i],
                       event)

Admission(c) ==
  /\ run[c].pc = "isUserAdmitted"
  /\ LET r == Did(run[c], "isUserAdmitted")
     IN run' = [run EXCEPT ![c] =
                  IF AdmissionEngaged(settings, r.event)
                    THEN [r EXCEPT !.pc = "cacheExists",
                                   !.currentSettings = settings]
                    ELSE Goto(r, "eventCheck")]
  /\ UNCHANGED <<settings, repoSettings, env, now, users, cache, rateStore,
                 budget, passLog, ledger, http>>

\* Mutant: the is-blocked key is never found.
CacheExists_Never(store, pubkey, t) == FALSE

\* this.cacheClient.exists(`${pubkey}:is-blocked`)
CacheExists(store, pubkey, t) ==
  /\ store[pubkey].present
  /\ (store[pubkey].expiresAt = 0 \/ t < store[pubkey].expiresAt)

\* findByPubkey, lines 229-237
FindByPubkeyCache(c) ==
  /\ run[c].pc = "cacheExists"
  /\ \E o \in {"ok", "throw"} :
       LET r == Outcome(Did(run[c], "findByPubkey"), o)
       IN run' = [run EXCEPT ![c] =
                    IF o = "throw" THEN Throw(r)
                    ELSE IF CacheExists(cache, r.event.pubkey, now)
                      THEN [r EXCEPT !.pc = "userLoaded", !.user = NoUser]
                      ELSE Goto(r, "dbSelect")]
  /\ UNCHANGED <<settings, repoSettings, env, now, users, cache, rateStore,
                 budget, passLog, ledger, http>>

\* findByPubkey, lines 240-244 and 271-274
FindByPubkeyDb(c) ==
  /\ run[c].pc = "dbSelect"
  /\ \E o \in {"ok", "throw"} :
       LET r == Outcome(Did(run[c], "select"), o)
           dbuser == users[r.event.pubkey]
       IN run' = [run EXCEPT ![c] =
                    IF o = "throw" THEN Throw(r)
                    ELSE IF dbuser.present
                      THEN [r EXCEPT !.pc = "userLoaded", !.user = dbuser]
                      ELSE Goto(r, "fetchUserByWebhook")]
  /\ UNCHANGED <<settings, repoSettings, env, now, users, cache, rateStore,
                 budget, passLog, ledger, http>>

\* Balances the pubkey-check webhook may report.
WebhookBalances == {0, 3}

\* fetchUserByWebhook, lines 350-356
PubkeyCheckConfigured ==
  /\ repoSettings.webhooks.pubkeyChecks
  /\ repoSettings.webhooks.endpoints.baseURL
  /\ repoSettings.webhooks.endpoints.pubkeyCheck
  /\ env.VIDA_API_KEY

\* fetchUserByWebhook, lines 330-388, called at line 246
FetchUserByWebhook(c) ==
  /\ run[c].pc = "fetchUserByWebhook"
  /\ \E o \in {"admitted", "negative", "throw"}, balance \in WebhookBalances :
       LET r == run[c]
           posted == Outcome(Did(r, "pubkeyCheck"), o)
       IN run' = [run EXCEPT ![c] =
                    IF ~PubkeyCheckConfigured THEN Goto(r, "cacheSet")
                    ELSE IF o = "throw" THEN Throw(posted)
                    ELSE IF o = "admitted"
                      THEN [posted EXCEPT !.pc = "upsert",
                                          !.user = User(TRUE, balance)]
                      ELSE Goto(posted, "cacheSet")]
  /\ UNCHANGED <<settings, repoSettings, env, now, users, cache, rateStore,
                 budget, passLog, ledger, http>>

\* The history of a table's balances: the balance each row was created with
\* and the sums the UPDATE statements added to and took from it.
OpeningLedger(table) ==
  [p \in Pubkeys |-> [base |-> table[p].balance, credits |-> 0, debits |-> 0]]

\* An INSERT created the row of pubkey with this balance.
Opened(book, table, pubkey, balance) ==
  IF table[pubkey].present THEN book
  ELSE [book EXCEPT ![pubkey] = [base |-> balance, credits |-> 0,
                                 debits |-> 0]]

\* An UPDATE ... SET balance = balance + amount matched the row of pubkey.
Credited(book, table, pubkey, amount) ==
  IF table[pubkey].present THEN [book EXCEPT ![pubkey].credits = @ + amount]
  ELSE book

\* An UPDATE ... SET balance = balance - amount matched the row of pubkey.
Debited(book, table, pubkey, amount) ==
  IF table[pubkey].present THEN [book EXCEPT ![pubkey].debits = @ + amount]
  ELSE book

\* Mutant: the INSERT is lost, only an existing row is updated.
upsert_UpdateOnly(row, user, date) ==
  IF row.present
    THEN [row EXCEPT !.isAdmitted = user.isAdmitted,
                     !.tosAcceptedAt = user.tosAcceptedAt,
                     !.updatedAt = date]
    ELSE row

\* Mutant: on conflict every column of the argument but the pubkey is merged.
upsert_MergesAll(row, user, date) ==
  Row(user.isAdmitted, user.balance, date, date, user.tosAcceptedAt)

\* The row after upsert(user): insert, or on conflict merge every column but
\* pubkey, balance and created_at (lines 294-303).
upsert(row, user, date) ==
  IF row.present
    THEN [row EXCEPT !.isAdmitted = user.isAdmitted,
                     !.tosAcceptedAt = user.tosAcceptedAt,
                     !.updatedAt = date]
    ELSE Row(user.isAdmitted, user.balance, date, date, user.tosAcceptedAt)

\* The user findByPubkey hands to upsert, lines 250-259.
WebhookRow(webhookUser, date) ==
  Row(webhookUser.isAdmitted, webhookUser.balance, date, date, date)

\* findByPubkey, lines 247-262
Upsert(c) ==
  /\ run[c].pc = "upsert"
  /\ \E o \in {"ok", "throw"} :
       LET r == Outcome(Did(run[c], "upsert"), o)
       IN /\ run' = [run EXCEPT ![c] =
                       IF o = "throw" THEN Throw(r) ELSE Goto(r, "userLoaded")]
          /\ users' = IF o = "throw" THEN users
                      ELSE [users EXCEPT ![r.event.pubkey] =
                              upsert(@, WebhookRow(r.user, now), now)]
          /\ ledger' = IF o = "throw" THEN ledger
                       ELSE Opened(ledger, users, r.event.pubkey,
                                   r.user.balance)
  /\ UNCHANGED <<settings, repoSettings, env, now, cache, rateStore, budget,
                 passLog, http>>

\* Time-to-live of a negative lookup, line 268.
BlockedTtl == 60

\* findByPubkey, line 267: cacheClient.set(`${pubkey}:is-blocked`, 'true')
CacheSet(c) ==
  /\ run[c].pc = "cacheSet"
  /\ \E o \in {"ok", "throw"} :
       LET r == Outcome(Did(run[c], "cacheSet"), o)
       IN /\ run' = [run EXCEPT ![c] =
                       IF o = "throw" THEN Throw(r) ELSE Goto(r, "cacheExpire")]
          /\ cache' = IF o = "throw" THEN cache
                      ELSE [cache EXCEPT ![r.event.pubkey] =
                              [present |-> TRUE, expiresAt |-> 0]]
  /\ UNCHANGED <<settings, repoSettings, env, now, users, rateStore, budget,
                 passLog, ledger, http>>

\* findByPubkey, lines 268-269: cacheClient.expire(key, 60), return none
CacheExpire(c) ==
  /\ run[c].pc = "cacheExpire"
  /\ \E o \in {"ok", "throw"} :
       LET r == Outcome(Did(run[c], "cacheExpire"), o)
           p == r.event.pubkey
       IN /\ run' = [run EXCEPT ![c] =
                       IF o = "throw" THEN Throw(r)
                       ELSE [r EXCEPT !.pc = "userLoaded", !.user = NoUser]]
          /\ cache' = IF o = "throw" \/ ~CacheExists(cache, p, now) THEN cache
                      ELSE [cache EXCEPT ![p].expiresAt = now + BlockedTtl]
  /\ UNCHANGED <<settings, repoSettings, env, now, users, rateStore, budget,
                 passLog, ledger, http>>

\* isUserAdmitted, lines 311-330, with the user findByPubkey returned.
AdmissionDecide(c) ==
  /\ run[c].pc = "userLoaded"
  /\ LET r == run[c]
         user == r.user
         publication == r.currentSettings.payments.feeSchedules.publication[1]
         topUp == r.currentSettings.payments.feeSchedules.topUp[1]
         minBalance == r.currentSettings.limits.event.pubkey.minBalance
     IN run' = [run EXCEPT ![c] =
                  IF ~user.present \/ ~user.isAdmitted
                    THEN Return(Emit(r, "blocked: pubkey not admitted"))
                  ELSE IF publication.enabled
                          /\ user.balance < publication.amount
                    THEN IF topUp.enabled THEN Goto(r, "topUpPubkey")
                         ELSE Return(Emit(r, "blocked: insufficient balance"))
                  ELSE IF minBalance > 0 /\ user.balance < minBalance
                    THEN Return(Emit(r, "blocked: insufficient balance"))
                  ELSE Goto(r, "eventCheck")]
  /\ UNCHANGED <<settings, repoSettings, env, now, users, cache, rateStore,
                 budget, passLog, ledger, http>>

\* topUpPubkey, lines 407-413
TopUpConfigured ==
  /\ repoSettings.webhooks.topUps
  /\ repoSettings.webhooks.endpoints.baseURL
  /\ repoSettings.webhooks.endpoints.topUps
  /\ env.VIDA_API_KEY

\* Mutant: the answer of topUpPubkey is not looked at and a refused top-up
\* admits the event.
AfterTopUp_RefusalAdmits(r, o) ==
  IF o = "throw" THEN Throw(r)
  ELSE IF o = "failure" THEN Goto(r, "eventCheck")
  ELSE Goto(r, "incrementUserBalance")

\* Mutant: the catch of topUpPubkey returns false instead of rethrowing.
AfterTopUp_ReturnsFalse(r, o) ==
  IF o = "throw" \/ o = "failure"
    THEN Return(Emit(r, "blocked: insufficient balance"))
  ELSE Goto(r, "incrementUserBalance")

\* Lines 424-441 and 318-324, given the top-up POST's outcome: a failed POST
\* is rethrown, an answer without success makes topUpPubkey return false.
AfterTopUp(r, o) ==
  IF o = "throw" THEN Throw(r)
  ELSE IF o = "failure"
    THEN Return(Emit(r, "blocked: insufficient balance"))
  ELSE Goto(r, "incrementUserBalance")

\* topUpPubkey up to the webhook's answer, lines 390-441, called at line 318
TopUpPubkey(c) ==
  /\ run[c].pc = "topUpPubkey"
  /\ \E o \in {"success", "failure", "throw"} :
       run' = [run EXCEPT ![c] =
                 IF TopUpConfigured
                   THEN AfterTopUp(Outcome(Did(run[c], "topUpPubkey"), o), o)
                   ELSE AfterTopUp(Did(run[c], "topUpPubkey"), "failure")]
  /\ UNCHANGED <<settings, repoSettings, env, now, users, cache, rateStore,
                 budget, passLog, ledger, http>>

\* Mutant: the statement writes the amount over the balance.
incrementUserBalance_Overwrites(table, pubkey, amount) ==
  [table EXCEPT ![pubkey] =
     IF @.present THEN [@ EXCEPT !.balance = amount] ELSE @]

\* Mutant: the statement copied from decrementUserBalance keeps its sign.
incrementUserBalance_Subtracts(table, pubkey, amount) ==
  [table EXCEPT ![pubkey] =
     IF @.present THEN [@ EXCEPT !.balance = @ - amount] ELSE @]

\* UPDATE users SET balance = balance + amount WHERE pubkey = ...
incrementUserBalance(table, pubkey, amount) ==
  [table EXCEPT ![pubkey] =
     IF @.present THEN [@ EXCEPT !.balance = @ + amount] ELSE @]

\* Mutant: the statement copied from incrementUserBalance keeps its sign.
decrementUserBalance_Adds(table, pubkey, amount) ==
  [table EXCEPT ![pubkey] =
     IF @.present THEN [@ EXCEPT !.balance = @ + amount] ELSE @]

\* UPDATE users SET balance = balance - amount WHERE pubkey = ...
decrementUserBalance(table, pubkey, amount) ==
  [table EXCEPT ![pubkey] =
     IF @.present THEN [@ EXCEPT !.balance = @ - amount] ELSE @]

\* topUpPubkey, lines 428-431, then isUserAdmitted returns at line 321
IncrementUserBalance(c) ==
  /\ run[c].pc = "incrementUserBalance"
  /\ \E o \in {"ok", "throw"} :
       LET r == Outcome(Did(run[c], "incrementUserBalance"), o)
           amount == repoSettings.payments.feeSchedules.topUp[1].amount
       IN /\ run' = [run EXCEPT ![c] =
                       IF o = "throw" THEN Throw(r)
                       ELSE Goto(Did(r, "toppedUp"), "eventCheck")]
          /\ users' = IF o = "throw" THEN users
                      ELSE incrementUserBalance(users, r.event.pubkey, amount)
          /\ ledger' = IF o = "throw" THEN ledger
                       ELSE Credited(ledger, users, r.event.pubkey, amount)
  /\ UNCHANGED <<settings, repoSettings, env, now, cache, rateStore, budget,
                 passLog, http>>

----------------------------------------------------------------------------
(* Stages 7 to 11 of handleMessage *)

\* Line 69
EventCheckConfigured ==
  /\ settings.webhooks.eventChecks
  /\ settings.webhooks.endpoints.baseURL
  /\ settings.webhooks.endpoints.eventCheck

\* Reasons the event-check server may give with success = false.
ServerReasons == {"blocked: content policy", Undefined}

\* Mutant: the veto is acknowledged but the `return` after it is missing.
AfterEventCheck_Continues(r, o, reason) ==
  IF o = "throw" THEN Throw(r)
  ELSE IF o = "veto" THEN Goto(Emit(r, reason), "strategyFactory")
  ELSE Goto(r, "strategyFactory")

\* Mutant: the catch acknowledges the transport failure instead of
\* rethrowing it.
AfterEventCheck_Swallows(r, o, reason) ==
  IF o = "throw" THEN Return(Emit(r, "error: unable to process event"))
  ELSE IF o = "veto" THEN Return(Emit(r, reason))
  ELSE Goto(r, "strategyFactory")

\* Lines 71-86, given the POST's outcome.
AfterEventCheck(r, o, reason) ==
  IF o = "throw" THEN Throw(r)
  ELSE IF o = "veto" THEN Return(Emit(r, reason))
  ELSE Goto(r, "strategyFactory")

\* Lines 68-87
EventCheck(c) ==
  /\ run[c].pc = "eventCheck"
  /\ \E o \in {"success", "veto", "throw"}, reason \in ServerReasons :
       run' = [run EXCEPT ![c] =
                 IF EventCheckConfigured
                   THEN AfterEventCheck(
                          [Outcome(Did(run[c], "eventCheck"), o) EXCEPT
                             !.response =
                               IF o = "throw" THEN @
                               ELSE [success |-> o = "success",
                                     reason |-> reason]],
                          o, reason)
                   ELSE Goto(run[c], "strategyFactory")]
  /\ UNCHANGED <<settings, repoSettings, env, now, users, cache, rateStore,
                 budget, passLog, ledger, http>>

\* Mutant: an unsupported event is dropped without a command result.
AfterStrategyFactory_NoAck(r, strategy, publication) ==
  IF strategy # "executable" THEN Return(r)
  ELSE IF publication.enabled
    THEN [r EXCEPT !.pc = "updateUserBalance", !.fee = publication.amount]
  ELSE Goto(r, "execute")

\* Lines 91-102, given what the factory returned.
AfterStrategyFactory(r, strategy, publication) ==
  IF strategy # "executable"
    THEN Return(Emit(r, "error: event not supported"))
  ELSE IF publication.enabled
    THEN [r EXCEPT !.pc = "updateUserBalance", !.fee = publication.amount]
  ELSE Goto(r, "execute")

\* Lines 89-101
StrategyResolve(c) ==
  /\ run[c].pc = "strategyFactory"
  /\ \E strategy \in {"executable", "undefined"} :
       run' = [run EXCEPT ![c] =
                 AfterStrategyFactory(
                   Did(run[c], "strategyFactory"), strategy,
                   settings.payments.feeSchedules.publication[1])]
  /\ UNCHANGED <<settings, repoSettings, env, now, users, cache, rateStore,
                 budget, passLog, ledger, http>>

\* userRepository.updateUserBalance(pubkey, amount, 'decrement'), line 101
updateUserBalance(table, pubkey, amount, type) ==
  IF type = "decrement" THEN decrementUserBalance(table, pubkey, amount)
  ELSE incrementUserBalance(table, pubkey, amount)

\* Line 101, then strategy.execute(event) is called at line 105.
UpdateUserBalance(c) ==
  /\ run[c].pc = "updateUserBalance"
  /\ \E o \in {"ok", "throw"} :
       LET r == Outcome(Did(run[c], "updateUserBalance"), o)
       IN /\ run' = [run EXCEPT ![c] =
                       IF o = "throw" THEN Throw(r)
                       ELSE Goto(Did(r, "debited"), "execute")]
          /\ users' = IF o = "throw" THEN users
                      ELSE updateUserBalance(users, r.event.pubkey, r.fee,
                                             "decrement")
          /\ ledger' = IF o = "throw" THEN ledger
                       ELSE Debited(ledger, users, r.event.pubkey, r.fee)
  /\ UNCHANGED <<settings, repoSettings, env, now, cache, rateStore, budget,
                 passLog, http>>

\* Line 112
EventCallbackConfigured ==
  /\ settings.webhooks.eventCallbacks
  /\ settings.webhooks.endpoints.baseURL
  /\ settings.webhooks.endpoints.eventCallback

\* Mutant: no try/catch around strategy.execute.
AfterExecute_Rethrows(r, o, callbacks) ==
  IF o = "throw" THEN Throw(Did(r, "threw"))
  ELSE IF callbacks
    THEN Goto([Did(r, "executed") EXCEPT !.strategyAcks = @ + 1],
              "eventCallback")
  ELSE Return([Did(r, "executed") EXCEPT !.strategyAcks = @ + 1])

\* Mutant: the pipeline acknowledges after a successful strategy too.
AfterExecute_AlwaysEmits(r, o, callbacks) ==
  LET after == IF o = "throw"
                 THEN Emit(Did(r, "threw"), "error: unable to process event")
                 ELSE Emit([Did(r, "executed") EXCEPT !.strategyAcks = @ + 1],
                           "")
  IN IF callbacks THEN Goto(after, "eventCallback") ELSE Return(after)

\* Lines 104-112, given how strategy.execute ended.  A strategy that
\* succeeds has emitted its own command result.
AfterExecute(r, o, callbacks) ==
  LET after == IF o = "throw"
                 THEN Emit(Did(r, "threw"), "error: unable to process event")
                 ELSE [Did(r, "executed") EXCEPT !.strategyAcks = @ + 1]
  IN IF callbacks THEN Goto(after, "eventCallback") ELSE Return(after)

\* Lines 104-112
StrategyExecute(c) ==
  /\ run[c].pc = "execute"
  /\ \E o \in {"ok", "throw"} :
       run' = [run EXCEPT ![c] =
                 AfterExecute(run[c], o, EventCallbackConfigured)]
  /\ UNCHANGED <<settings, repoSettings, env, now, users, cache, rateStore,
                 budget, passLog, ledger, http>>

\* Lines 113-124, given the POST's outcome: every outcome is swallowed.
AfterEventCallback(r, o) == Return(r)

\* Lines 111-127
EventCallback(c) ==
  /\ run[c].pc = "eventCallback"
  /\ \E o \in {"success", "failure", "throw"} :
       run' = [run EXCEPT ![c] =
                 AfterEventCallback(Outcome(Did(run[c], "eventCallback"), o),
                                    o)]
  /\ UNCHANGED <<settings, repoSettings, env, now, users, cache, rateStore,
                 budget, passLog, ledger, http>>

\* The clock advances.
Tick ==
  /\ now < MaxTime
  /\ now' = now + 1
  /\ UNCHANGED <<settings, repoSettings, env, users, cache, rateStore, run,
                 budget, passLog, ledger, http>>

\* One step of the run of connection c.
Step(c) ==
  \/ Validity(c) \/ Expiration(c)
  \/ RateLimitEnter(c) \/ RateLimitHit(c) \/ RateLimitReturn(c)
  \/ Policy(c)
  \/ Admission(c) \/ FindByPubkeyCache(c) \/ FindByPubkeyDb(c)
  \/ FetchUserByWebhook(c) \/ Upsert(c) \/ CacheSet(c) \/ CacheExpire(c)
  \/ AdmissionDecide(c) \/ TopUpPubkey(c) \/ IncrementUserBalance(c)
  \/ EventCheck(c) \/ StrategyResolve(c) \/ UpdateUserBalance(c)
  \/ StrategyExecute(c) \/ EventCallback(c)

----------------------------------------------------------------------------
(* Specification of the pipeline: one connection, every stage configurable *)

\* limits.event of the pipeline specification: kind-1 content of at most 2
\* bytes, kinds 7 to 9 denied, one kind-1 event per pubkey per 2 ticks, PubB and
\* nobody's address on the bypass whitelists.
PipelineLimits(minBalance) ==
  [NoEventLimits EXCEPT
     !.content = [isArray |-> TRUE,
                  items |-> <<ContentLimit(2, TRUE, <<Exact(1)>>)>>],
     !.kind.blacklist = <<Range(7, 9)>>,
     !.pubkey.minBalance = minBalance,
     !.rateLimits = <<RateLimit(2, 1, TRUE, <<Exact(1)>>)>>,
     !.whitelists.pubkeys = <<PubB>>]

\* payments: the admission fee does not apply to pubkeys starting with 8.
PipelinePayments(enabled, publication, topUp) ==
  Payments(enabled,
           <<FeeSchedule(FALSE, 5, <<>>), FeeSchedule(TRUE, 5, <<<<8>>>>)>>,
           <<FeeSchedule(publication, 2, <<>>)>>,
           <<FeeSchedule(topUp, 3, <<>>)>>)

PipelineSettings ==
  {Settings(PipelineLimits(mb), PipelinePayments(pe, pub, tu),
            Webhooks(pk, tw, ec, cb)) :
     mb \in {0, 2, 4}, pe \in BOOLEAN, pub \in BOOLEAN, tu \in BOOLEAN,
     pk \in BOOLEAN, tw \in BOOLEAN, ec \in BOOLEAN, cb \in BOOLEAN}

PipelineEvents ==
  {Event(<<0, 3>>, PubA, 1, 1, TRUE, TRUE, 0),
   Event(<<0, 2>>, PubA, 2, 1, TRUE, TRUE, 0),
   Event(<<0, 4>>, PubB, 1, 1, TRUE, TRUE, 9),
   Event(<<0, 5>>, PubA, 1, 1, FALSE, TRUE, 0),
   Event(<<0, 6>>, PubA, 1, 1, TRUE, FALSE, 0),
   Event(<<0, 7>>, PubA, 1, 1, TRUE, TRUE, 1),
   Event(<<0, 8>>, PubA, 1, 3, TRUE, TRUE, 0),
   Event(<<0, 9>>, PubB, 8, 1, TRUE, TRUE, 0)}

\* The users table at start: PubA unknown, admitted with a balance, or known
\* and not admitted; PubB unknown.
PipelineUsers ==
  {[p \in Pubkeys |-> IF p = PubA THEN u ELSE NoUser] :
     u \in {NoUser, User(TRUE, 0), User(TRUE, 3), User(FALSE, 3)}}

NoCache == [p \in Pubkeys |-> [present |-> FALSE, expiresAt |-> 0]]
EmptyStore == [k \in {} |-> <<>>]

Init ==
  /\ settings \in PipelineSettings
  /\ repoSettings = settings
  /\ env \in [VIDA_API_KEY : BOOLEAN]
  /\ now = 1
  /\ users \in PipelineUsers
  /\ cache = NoCache
  /\ rateStore = EmptyStore
  /\ run = [c \in Conns |-> IdleRun]
  /\ budget = [c \in Conns |-> IF c = "c1" THEN MaxRuns ELSE 0]
  /\ passLog = {}
  /\ ledger = OpeningLedger(users)
  /\ http = NoRequest

Next ==
  \/ \E e \in PipelineEvents : HandleMessage("c1", e)
  \/ Step("c1")

Spec == Init /\ [][Next]_vars

----------------------------------------------------------------------------
(* Specification of the rate-limiting stage: one connection, a running      *)
(* clock, payments and webhooks off                                         *)

RateLimitSets ==
  {<<RateLimit(2, 1, FALSE, <<>>), RateLimit(3, 2, TRUE, <<Exact(1)>>)>>,
   <<RateLimit(3, 1, TRUE, <<Range(2, 3)>>), RateLimit(2, 2, FALSE, <<>>),
     RateLimit(2, 3, FALSE, <<>>)>>}

RateSettings ==
  {Settings([NoEventLimits EXCEPT !.rateLimits = rl,
                                  !.whitelists.pubkeys = <<PubB>>,
                                  !.whitelists.ipAddresses = ips],
            PipelinePayments(FALSE, FALSE, FALSE),
            Webhooks(FALSE, FALSE, FALSE, FALSE)) :
     rl \in RateLimitSets, ips \in {<<>>, <<getClientAddress("c1")>>}}

RateEvents ==
  {Event(<<0, 3>>, PubA, 1, 1, TRUE, TRUE, 0),
   Event(<<0, 2>>, PubA, 2, 1, TRUE, TRUE, 0),
   Event(<<0, 4>>, PubB, 1, 1, TRUE, TRUE, 0)}

InitRate ==
  /\ settings \in RateSettings
  /\ repoSettings = settings
  /\ env = [VIDA_API_KEY |-> TRUE]
  /\ now = 1
  /\ users = [p \in Pubkeys |-> NoUser]
  /\ cache = NoCache
  /\ rateStore = EmptyStore
  /\ run = [c \in Conns |-> IdleRun]
  /\ budget = [c \in Conns |-> IF c = "c1" THEN MaxRateRuns ELSE 0]
  /\ passLog = {}
  /\ ledger = OpeningLedger(users)
  /\ http = NoRequest

RateStep(c) ==
  \/ Validity(c) \/ Expiration(c)
  \/ RateLimitEnter(c) \/ RateLimitHit(c) \/ RateLimitReturn(c)
  \/ Policy(c) \/ Admission(c) \/ EventCheck(c) \/ StrategyResolve(c)
  \/ StrategyExecute(c)

NextRate ==
  \/ Tick
  \/ \E e \in RateEvents : HandleMessage("c1", e)
  \/ RateStep("c1")

SpecRate == InitRate /\ [][NextRate]_vars

----------------------------------------------------------------------------
(* Specification of the negative-lookup cache: one connection, gating
   engaged, the clock advancing by half the time-to-live of an entry *)

\* Half a time-to-live passes.
Elapse ==
  /\ now + BlockedTtl \div 2 <= MaxCacheTime
  /\ now' = now + BlockedTtl \div 2
  /\ UNCHANGED <<settings, repoSettings, env, users, cache, rateStore, run,
                 budget, passLog, ledger, http>>

\* Payments with an admission fee, no publication fee, no limits; the
\* pubkey-check webhook configured or not.
CacheSettings ==
  {Settings(NoEventLimits, PipelinePayments(TRUE, FALSE, FALSE),
            Webhooks(pk, FALSE, FALSE, FALSE)) : pk \in BOOLEAN}

CacheEvents ==
  {Event(<<0, 3>>, PubA, 1, 1, TRUE, TRUE, 0),
   Event(<<0, 4>>, PubB, 1, 1, TRUE, TRUE, 0)}

InitCache ==
  /\ settings \in CacheSettings
  /\ repoSettings = settings
  /\ env = [VIDA_API_KEY |-> TRUE]
  /\ now = 1
  /\ users \in {[p \in Pubkeys |-> NoUser],
                [p \in Pubkeys |-> IF p = PubA THEN User(TRUE, 0) ELSE NoUser]}
  /\ cache = NoCache
  /\ rateStore = EmptyStore
  /\ run = [c \in Conns |-> IdleRun]
  /\ budget = [c \in Conns |-> IF c = "c1" THEN MaxCacheRuns ELSE 0]
  /\ passLog = {}
  /\ ledger = OpeningLedger(users)
  /\ http = NoRequest

CacheStep(c) ==
  \/ Validity(c) \/ Expiration(c) \/ RateLimitEnter(c) \/ Policy(c)
  \/ Admission(c) \/ FindByPubkeyCache(c) \/ FindByPubkeyDb(c)
  \/ FetchUserByWebhook(c) \/ Upsert(c) \/ CacheSet(c) \/ CacheExpire(c)
  \/ AdmissionDecide(c) \/ EventCheck(c) \/ StrategyResolve(c)
  \/ StrategyExecute(c)

NextCache ==
  \/ Elapse
  \/ \E e \in CacheEvents : HandleMessage("c1", e)
  \/ CacheStep("c1")

SpecCache == InitCache /\ [][NextCache]_vars

----------------------------------------------------------------------------
(* Specification of a shared pubkey: two connections submit events of one
   pubkey, with publication fee and top-up *)

SharedSettings ==
  {Settings(NoEventLimits, PipelinePayments(TRUE, TRUE, TRUE),
            Webhooks(TRUE, TRUE, FALSE, FALSE))}

SharedEvents == {Event(<<0, 3>>, PubA, 1, 1, TRUE, TRUE, 0)}

InitShared ==
  /\ settings \in SharedSettings
  /\ repoSettings = settings
  /\ env = [VIDA_API_KEY |-> TRUE]
  /\ now = 1
  /\ users \in {[p \in Pubkeys |-> IF p = PubA THEN u ELSE NoUser] :
                  u \in {NoUser, User(TRUE, 0), User(TRUE, 3)}}
  /\ cache = NoCache
  /\ rateStore = EmptyStore
  /\ run = [c \in Conns |-> IdleRun]
  /\ budget = [c \in Conns |-> MaxSharedRuns]
  /\ passLog = {}
  /\ ledger = OpeningLedger(users)
  /\ http = NoRequest

SharedStep(c) ==
  \/ Validity(c) \/ Expiration(c) \/ RateLimitEnter(c) \/ Policy(c)
  \/ Admission(c) \/ FindByPubkeyCache(c) \/ FindByPubkeyDb(c)
  \/ FetchUserByWebhook(c) \/ Upsert(c) \/ CacheSet(c) \/ CacheExpire(c)
  \/ AdmissionDecide(c) \/ TopUpPubkey(c) \/ IncrementUserBalance(c)
  \/ EventCheck(c) \/ StrategyResolve(c) \/ UpdateUserBalance(c)
  \/ StrategyExecute(c)

NextShared ==
  \E c \in Conns :
    \/ \E e \in SharedEvents : HandleMessage(c, e)
    \/ SharedStep(c)

SpecShared == InitShared /\ [][NextShared]_vars

----------------------------------------------------------------------------
(* Specification of a settings reload: one connection, the reloader switching
   between two snapshots while runs are suspended at their awaits *)

\* Everything configured, and everything off.
ReloadSettings ==
  {Settings(PipelineLimits(0), PipelinePayments(TRUE, TRUE, TRUE),
            Webhooks(TRUE, TRUE, TRUE, TRUE)),
   Settings(NoEventLimits, PipelinePayments(FALSE, FALSE, FALSE),
            Webhooks(FALSE, FALSE, FALSE, FALSE))}

\* The reloader installs another snapshot: settings() returns it from now
\* on, the repository keeps the one createSettings() gave its constructor.
Reload ==
  /\ settings' \in ReloadSettings \ {settings}
  /\ UNCHANGED <<repoSettings, env, now, users, cache, rateStore, run,
                 budget, passLog, ledger, http>>

InitReload ==
  /\ settings \in ReloadSettings
  /\ repoSettings = settings
  /\ env = [VIDA_API_KEY |-> TRUE]
  /\ now = 1
  /\ users \in {[p \in Pubkeys |-> IF p = PubA THEN u ELSE NoUser] :
                  u \in {NoUser, User(TRUE, 0), User(TRUE, 3)}}
  /\ cache = NoCache
  /\ rateStore = EmptyStore
  /\ run = [c \in Conns |-> IdleRun]
  /\ budget = [c \in Conns |-> IF c = "c1" THEN MaxRuns ELSE 0]
  /\ passLog = {}
  /\ ledger = OpeningLedger(users)
  /\ http = NoRequest

NextReload ==
  \/ Reload
  \/ \E e \in SharedEvents : HandleMessage("c1", e)
  \/ Step("c1")

SpecReload == InitReload /\ [][NextReload]_vars

----------------------------------------------------------------------------
(* Two connections of one pubkey while the clock advances: the second of two
   lookups that both found no row upserts into the row of the first *)

MaxUpsertTime == 2  \* the clock of the upsert specification stops here

\* Time passes.
Later ==
  /\ now < MaxUpsertTime
  /\ now' = now + 1
  /\ UNCHANGED <<settings, repoSettings, env, users, cache, rateStore, run,
                 budget, passLog, ledger, http>>

\* Each connection submits one event.
InitUpsert ==
  /\ settings \in SharedSettings
  /\ repoSettings = settings
  /\ env = [VIDA_API_KEY |-> TRUE]
  /\ now = 1
  /\ users \in {[p \in Pubkeys |-> IF p = PubA THEN u ELSE NoUser] :
                  u \in {NoUser, User(TRUE, 0), User(TRUE, 3)}}
  /\ cache = NoCache
  /\ rateStore = EmptyStore
  /\ run = [c \in Conns |-> IdleRun]
  /\ budget = [c \in Conns |-> 1]
  /\ passLog = {}
  /\ ledger = OpeningLedger(users)
  /\ http = NoRequest

NextUpsert ==
  \/ Later
  \/ \E c \in Conns :
       \/ \E e \in SharedEvents : HandleMessage(c, e)
       \/ SharedStep(c)

SpecUpsert == InitUpsert /\ [][NextUpsert]_vars

----------------------------------------------------------------------------
(* The policy evaluator on its inputs: one submission, evaluated under event
   limits that switch every check on or off *)

\* The clock of the policy specification.
PolicyNow == 5

PolicyContent ==
  {[isArray |-> FALSE, items |-> <<>>],
   [isArray |-> FALSE, items |-> <<ContentLimit(2, FALSE, <<>>)>>],
   [isArray |-> FALSE, items |-> <<ContentLimit(2, TRUE, <<Exact(1)>>)>>],
   [isArray |-> TRUE, items |-> <<ContentLimit(0, FALSE, <<>>)>>],
   [isArray |-> TRUE, items |-> <<ContentLimit(2, TRUE, <<>>)>>],
   [isArray |-> TRUE,
    items |-> <<ContentLimit(4, TRUE, <<Exact(7), Range(2, 3)>>),
                ContentLimit(2, FALSE, <<>>)>>]}

PolicyLimits ==
  {[NoEventLimits EXCEPT
      !.content = content,
      !.createdAt = [maxPositiveDelta |-> future, maxNegativeDelta |-> past],
      !.eventId.minLeadingZeroBits = idBits,
      !.pubkey.minLeadingZeroBits = pubkeyBits,
      !.pubkey.whitelist = allowed,
      !.pubkey.blacklist = denied,
      !.kind.whitelist = allowedKinds,
      !.kind.blacklist = deniedKinds] :
     content \in PolicyContent, future \in {0, 2}, past \in {0, 2},
     idBits \in {0, 5}, pubkeyBits \in {0, 4},
     allowed \in {<<>>, <<<<0>>>>}, denied \in {<<>>, <<<<0, 1>>>>},
     allowedKinds \in {<<>>, <<Exact(1), Range(2, 3)>>},
     deniedKinds \in {<<>>, <<Range(3, 5)>>}}

PolicySettings ==
  {Settings(limits, PipelinePayments(FALSE, FALSE, FALSE),
            Webhooks(FALSE, FALSE, FALSE, FALSE)) : limits \in PolicyLimits}

PolicyEvents ==
  {[Event(id, pubkey, kind, contentLength, TRUE, TRUE, 0)
      EXCEPT !.created_at = createdAt] :
     id \in {<<0, 3>>, <<1, 0>>}, pubkey \in Pubkeys, kind \in {1, 2, 4, 6},
     contentLength \in {1, 3, 5}, createdAt \in {1, 5, 9}}

InitPolicy ==
  /\ settings \in PolicySettings
  /\ repoSettings = settings
  /\ env = [VIDA_API_KEY |-> TRUE]
  /\ now = PolicyNow
  /\ users = [p \in Pubkeys |-> NoUser]
  /\ cache = NoCache
  /\ rateStore = EmptyStore
  /\ run = [c \in Conns |-> IdleRun]
  /\ budget = [c \in Conns |-> IF c = "c1" THEN 1 ELSE 0]
  /\ passLog = {}
  /\ ledger = OpeningLedger(users)
  /\ http = NoRequest

PolicyStep(c) ==
  \/ Validity(c) \/ Expiration(c) \/ RateLimitEnter(c) \/ Policy(c)
  \/ Admission(c) \/ EventCheck(c) \/ StrategyResolve(c)
  \/ StrategyExecute(c)

NextPolicy ==
  \/ \E e \in PolicyEvents : HandleMessage("c1", e)
  \/ PolicyStep("c1")

SpecPolicy == InitPolicy /\ [][NextPolicy]_vars

----------------------------------------------------------------------------
(* The administrative endpoint GET /user (userRequestHandler) *)

MaxRequests == 2    \* requests the endpoint serves

\* A query parameter: given or not, and its text when given.
Param(given, value) == [given |-> given, value |-> value]
NoParam == Param(FALSE, <<>>)

\* !req.query.x: the parameter is absent or its text is empty.
MissingParam(param) == ~param.given \/ Len(param.value) = 0

\* !authkey: RELAY_API_KEY is unset or empty.
MissingKey(e) == e.RELAY_API_KEY \in {Undefined, ""}

\* UserRepository.getBalanceByPubkey: 0n when no row has the pubkey.
getBalanceByPubkey(table, pubkey) ==
  IF pubkey \in DOMAIN table /\ table[pubkey].present
    THEN table[pubkey].balance
    ELSE 0

\* Number(balance), exact for the balances of the model (below 2^53).
Number(balance) == balance

\* res.status(status).send(text) or res.status(status).json({balance}).
Respond(h, status, text, balance) ==
  [h EXCEPT !.pc = "responded", !.status = status,
            !.body = [text |-> text, balance |-> balance]]

\* The handler after the repository returned: !balance is true of 0n.
AfterGetBalance(h, balance) ==
  IF balance = 0
    THEN Respond(h, 404, "Pubkey not found", 0)
    ELSE Respond(h, 200, "", Number(balance))

\* A request arrives; the handler runs to its first await.
UserRequest(token, pubkey) ==
  /\ http.pc \in {"idle", "responded", "failed"}
  /\ http.served < MaxRequests
  /\ LET h == [NoRequest EXCEPT !.token = token, !.pubkey = pubkey,
                                !.served = http.served + 1]
     IN http' = IF MissingKey(env) \/ MissingParam(token)
                  THEN Respond(h, 403, "Unauthorized", 0)
                  ELSE IF MissingParam(pubkey)
                         THEN Respond(h, 400, "Must send pubkey in query", 0)
                         ELSE [h EXCEPT !.pc = "getBalanceByPubkey"]
  /\ UNCHANGED <<settings, repoSettings, env, now, users, cache, rateStore,
                 run, budget, passLog, ledger>>

\* The datastore answers the balance query, or fails.
GetBalanceByPubkey ==
  /\ http.pc = "getBalanceByPubkey"
  /\ \E o \in {"ok", "throw"} :
       http' = IF o = "throw"
                 THEN [http EXCEPT !.pc = "failed"]
                 ELSE AfterGetBalance([http EXCEPT !.balance =
                                         getBalanceByPubkey(users,
                                                            http.pubkey.value)],
                                      getBalanceByPubkey(users,
                                                         http.pubkey.value))
  /\ UNCHANGED <<settings, repoSettings, env, now, users, cache, rateStore,
                 run, budget, passLog, ledger>>

\* A third pubkey, of no user.
PubC == <<3, 7>>

Tokens == {NoParam, Param(TRUE, <<>>), Param(TRUE, <<5>>), Param(TRUE, <<6>>)}
QueryPubkeys == {NoParam, Param(TRUE, <<>>), Param(TRUE, PubA),
                 Param(TRUE, PubB), Param(TRUE, PubC)}

InitUser ==
  /\ settings = NoSettings
  /\ repoSettings = settings
  /\ env \in [VIDA_API_KEY : {TRUE}, RELAY_API_KEY : {Undefined, "", "5"}]
  /\ now = 1
  /\ users \in [Pubkeys -> {NoUser, User(TRUE, 0), User(FALSE, 0),
                            User(TRUE, 3)}]
  /\ cache = NoCache
  /\ rateStore = EmptyStore
  /\ run = [c \in Conns |-> IdleRun]
  /\ budget = [c \in Conns |-> 0]
  /\ passLog = {}
  /\ ledger = OpeningLedger(users)
  /\ http = NoRequest

NextUser ==
  \/ \E token \in Tokens, pubkey \in QueryPubkeys : UserRequest(token, pubkey)
  \/ GetBalanceByPubkey

SpecUser == InitUser /\ [][NextUser]_vars

----------------------------------------------------------------------------
(* Properties *)

\* strategy.execute(event) has been called in this run.
StrategyInvoked(r) ==
  r.pc = "execute" \/ Occurs(r, "executed") \/ Occurs(r, "threw")

\* The awaited call recorded as op threw.
ThrewAt(r, op) ==
  \E i \in 2..Len(r.trace) : r.trace[i] = "throw" /\ r.trace[i - 1] = op

\* The run ended with a rejection emitted right after op.
RejectedAfter(r, op) ==
  /\ r.pc = "done"
  /\ Len(r.trace) >= 2
  /\ r.trace[Len(r.trace)] = "emit"
  /\ r.trace[Len(r.trace) - 1] = op

ErrorAck(r) ==
  createCommandResult(r.event.id, FALSE, "error: unable to process event")

\* The balance the submitter's row started this run with: the row at entry,
\* or the row findByPubkey inserted from the webhook's answer.
BaseBalance(r) ==
  IF r.rowAtEntry.present THEN r.rowAtEntry.balance ELSE r.user.balance

\* The balance the run's own top-up and debit lead to.
ExpectedBalance(r) ==
  BaseBalance(r)
    + (IF Occurs(r, "toppedUp")
         THEN repoSettings.payments.feeSchedules.topUp[1].amount ELSE 0)
    - (IF Occurs(r, "debited") THEN r.fee ELSE 0)

\* C1 as stated: every run that has ended emitted exactly one command result
\* unless the strategy executed and took over.
C1_ExactlyOneAckEveryBranch ==
  \A c \in Conns :
    (run[c].pc \in {"done", "failed"} /\ ~Occurs(run[c], "executed"))
      => Len(run[c].acks) = 1

\* C1 amended: a run emits at most one command result, always OK,false for
\* its event id; a run that returns without a successful strategy has emitted
\* exactly one, a run whose strategy executed has emitted none (the strategy
\* emitted its own), and a run that propagates an error has emitted none.
C1_OneAckPerReturningRun ==
  \A c \in Conns :
    LET r == run[c] IN
    /\ Len(r.acks) <= 1
    /\ \A i \in 1..Len(r.acks) :
         /\ r.acks[i].type = "OK"
         /\ r.acks[i].id = r.event.id
         /\ r.acks[i].accepted = FALSE
    /\ (r.pc = "done" /\ ~Occurs(r, "executed")) => Len(r.acks) = 1
    /\ Occurs(r, "executed") => (Len(r.acks) = 0 /\ r.strategyAcks = 1)
    /\ r.pc = "failed" => (Len(r.acks) = 0 /\ r.strategyAcks = 0)

C1_Witness ==
  \E c \in Conns :
    /\ RejectedAfter(run[c], "strategyFactory")
    /\ run[c].acks =
         <<createCommandResult(run[c].event.id, FALSE,
                               "error: event not supported")>>

----------------------------------------------------------------------------
(* C2: the order of the stages *)

\* The stage an operation of the run belongs to; 0 for the emitter and for a
\* thrown error, which belong to whichever stage they end.
Stage(op) ==
  CASE op = "isEventValid" -> 1
    [] op = "isExpiredEvent" -> 2
    [] op \in {"isRateLimited", "hit"} -> 3
    [] op = "canAcceptEvent" -> 4
    [] op \in {"isUserAdmitted", "findByPubkey", "select", "pubkeyCheck",
               "upsert", "cacheSet", "cacheExpire", "topUpPubkey",
               "incrementUserBalance", "toppedUp"} -> 5
    [] op = "eventCheck" -> 6
    [] op = "strategyFactory" -> 7
    [] op \in {"updateUserBalance", "debited"} -> 8
    [] op \in {"executed", "threw"} -> 9
    [] op = "eventCallback" -> 10
    [] OTHER -> 0

\* Some operation of stage k or later occurred in the run.
ReachedStage(r, k) == \E i \in 1..Len(r.trace) : Stage(r.trace[i]) >= k

\* The reason of the run's rejection, if the pipeline emitted one.
Rejection(r) == IF Len(r.acks) = 0 THEN Undefined ELSE r.acks[1].reason

\* C2: the operations of a run occur in the order of the stages, a stage is
\* entered only after the one before it, a rejection or a thrown error before
\* strategy execution is the run's last operation, and an event that fails a
\* stage sees no operation of a later stage: no rate-limiter hit for an
\* invalid or expired event, no repository lookup for a rate-limited or
\* policy-rejected event, no event-check call for a non-admitted submitter,
\* no strategy resolution for a vetoed event.
C2_StagesInOrder ==
  \A c \in Conns :
    LET r == run[c]
        t == r.trace
    IN
    /\ \A i, j \in 1..Len(t) :
         (i < j /\ Stage(t[i]) > 0 /\ Stage(t[j]) > 0)
           => Stage(t[i]) <= Stage(t[j])
    /\ \A k \in 2..5 : ReachedStage(r, k) =>
         \E i \in 1..Len(t) : Stage(t[i]) = k - 1
    /\ ReachedStage(r, 6) => Occurs(r, "isUserAdmitted")
    /\ ReachedStage(r, 8) => Occurs(r, "strategyFactory")
    /\ \A i \in 1..Len(t) :
         (i > 1 /\ t[i] \in {"throw", "emit"} /\ Stage(t[i - 1]) < 9)
           => (i = Len(t) /\ r.pc = IF t[i] = "throw" THEN "failed" ELSE "done")
    /\ (r.pc # "idle" /\ isEventValid(r.event) # Undefined)
         => ~ReachedStage(r, 2)
    /\ (r.pc # "idle" /\ isExpiredEvent(r.event, now)) => ~ReachedStage(r, 3)
    /\ Rejection(r) = "rate-limited: slow down" => ~ReachedStage(r, 4)
    /\ (Occurs(r, "canAcceptEvent")
          /\ canAcceptEvent(r.event, settings.limits.event, now) # Undefined)
         => ~ReachedStage(r, 5)
    /\ (~ReachedStage(r, 6) /\ ReachedStage(r, 5) /\ r.pc = "done")
         => (/\ Rejection(r) \in {"blocked: pubkey not admitted",
                                  "blocked: insufficient balance"}
             /\ ~Occurs(r, "eventCheck"))
    /\ (Occurs(r, "eventCheck") /\ ~ThrewAt(r, "eventCheck")
          /\ ~r.response.success)
         => ~ReachedStage(r, 7)

\* A vetoed run that went through the repository lookup: every stage up to
\* the event check ran, in order, and nothing after it.
C2_Witness ==
  \E c \in Conns :
    /\ RejectedAfter(run[c], "eventCheck")
    /\ Occurs(run[c], "findByPubkey")
    /\ Occurs(run[c], "hit")
    /\ ~run[c].response.success

----------------------------------------------------------------------------
(* C3, C4: the publication fee *)

\* C3: with the first publication fee schedule enabled the balance update
\* by the publication amount has completed in exactly the runs whose strategy
\* was then invoked; without it no run debits; and the submitter's balance is
\* what the run's own top-up and debit make of the balance it started with.
C3_DebitIffExecuted ==
  \A c \in Conns :
    LET r == run[c]
        publication == settings.payments.feeSchedules.publication[1]
    IN
    /\ publication.enabled => (Occurs(r, "debited") <=> StrategyInvoked(r))
    /\ ~publication.enabled => ~Occurs(r, "debited")
    /\ Occurs(r, "debited") => r.fee = publication.amount
    /\ (r.pc # "idle" /\ users[r.event.pubkey].present)
         => users[r.event.pubkey].balance = ExpectedBalance(r)

\* A run debited the fee from an existing balance and its strategy executed.
C3_Witness ==
  \E c \in Conns :
    /\ Occurs(run[c], "debited")
    /\ Occurs(run[c], "executed")
    /\ run[c].rowAtEntry.present
    /\ users[run[c].event.pubkey].balance
         = run[c].rowAtEntry.balance - run[c].fee

\* C4: a run whose strategy threw does not fail; its only acknowledgement is
\* OK,false,"error: unable to process event", and a fee it debited stays
\* debited.
C4_StrategyFailureCaught ==
  \A c \in Conns :
    LET r == run[c] IN
    Occurs(r, "threw") =>
      /\ r.pc # "failed"
      /\ ~\E op \in {"executed", "threw", "emit"} : ThrewAt(r, op)
      /\ r.acks = <<ErrorAck(r)>>
      /\ r.strategyAcks = 0
      /\ (Occurs(r, "debited") /\ users[r.event.pubkey].present)
           => users[r.event.pubkey].balance = ExpectedBalance(r)

C4_Witness ==
  \E c \in Conns :
    /\ Occurs(run[c], "threw")
    /\ Occurs(run[c], "debited")
    /\ run[c].pc = "done"
    /\ run[c].rowAtEntry.present
    /\ users[run[c].event.pubkey].balance
         < run[c].rowAtEntry.balance

----------------------------------------------------------------------------
(* C5: the emitter and the hand-off to the strategy *)

\* C5 as stated: once strategy.execute has been invoked the pipeline emits
\* no command result in that run.
C5_NoEmitAfterHandOff ==
  [][\A c \in Conns :
       (StrategyInvoked(run[c]) /\ run'[c].pc # "isEventValid")
         => run'[c].acks = run[c].acks]_vars

\* C5 amended: the pipeline emits at most once per run; after
\* strategy.execute has been invoked it emits only from the catch of a
\* strategy that threw, and then exactly the error result; a strategy that
\* completed leaves the pipeline without an emission of its own.
C5_EmitOnceHandOffOnlyOnThrow ==
  /\ [][\A c \in Conns :
          (StrategyInvoked(run[c]) /\ run'[c].pc # "isEventValid"
             /\ run'[c].acks # run[c].acks)
            => /\ run[c].pc = "execute"
               /\ run[c].acks = <<>>
               /\ run'[c].acks = <<ErrorAck(run[c])>>
               /\ Occurs(run'[c], "threw")
               /\ ~Occurs(run'[c], "executed")]_vars
  /\ [](\A c \in Conns :
          /\ Count(run[c], "emit") = Len(run[c].acks)
          /\ Len(run[c].acks) <= 1
          /\ Occurs(run[c], "executed") => run[c].acks = <<>>)

\* The strategy threw with no fee charged, and the pipeline's single emission
\* came from the catch, after the hand-off.
C5_Witness ==
  \E c \in Conns :
    /\ RejectedAfter(run[c], "threw")
    /\ ~Occurs(run[c], "updateUserBalance")
    /\ Count(run[c], "emit") = 1

----------------------------------------------------------------------------
(* C6, C7: failures of the webhooks, the cache and the datastore *)

\* C6: a run whose event-check POST failed ends in the error, with no
\* acknowledgement, no strategy resolved or executed and no fee debited; a
\* run whose event check answered success = false ends with the single
\* acknowledgement OK,false carrying the server's reason, and no strategy.
C6_EventCheckFailureAndVeto ==
  \A c \in Conns :
    LET r == run[c] IN
    /\ ThrewAt(r, "eventCheck") =>
         /\ r.pc = "failed"
         /\ r.acks = <<>>
         /\ r.strategyAcks = 0
         /\ ~ReachedStage(r, 7)
         /\ ~StrategyInvoked(r)
         /\ (users[r.event.pubkey].present
               => users[r.event.pubkey].balance = ExpectedBalance(r))
    /\ (Occurs(r, "eventCheck") /\ ~ThrewAt(r, "eventCheck")
          /\ ~r.response.success) =>
         /\ r.pc = "done"
         /\ r.acks = <<createCommandResult(r.event.id, FALSE,
                                           r.response.reason)>>
         /\ r.strategyAcks = 0
         /\ ~Occurs(r, "strategyFactory")
         /\ ~StrategyInvoked(r)

\* The event-check POST failed in a run of a submitter who has a balance.
C6_Witness ==
  \E c \in Conns :
    /\ ThrewAt(run[c], "eventCheck")
    /\ run[c].pc = "failed"
    /\ users[run[c].event.pubkey].present

\* The calls of findByPubkey, topUpPubkey and the balance update that reach
\* the cache, the datastore or a repository webhook.
RepositoryOps ==
  {"findByPubkey", "select", "pubkeyCheck", "upsert", "cacheSet",
   "cacheExpire", "topUpPubkey", "incrementUserBalance", "updateUserBalance"}

\* C7: a run in which a cache, datastore or repository-webhook call threw
\* ends in that error, with no acknowledgement and without the strategy
\* having been invoked.
C7_RepositoryFailurePropagates ==
  \A c \in Conns :
    LET r == run[c] IN
    (\E op \in RepositoryOps : ThrewAt(r, op)) =>
      /\ r.pc = "failed"
      /\ r.acks = <<>>
      /\ r.strategyAcks = 0
      /\ ~StrategyInvoked(r)
      /\ ~Occurs(r, "eventCallback")

\* The top-up POST failed.
C7_Witness ==
  \E c \in Conns :
    /\ ThrewAt(run[c], "topUpPubkey")
    /\ run[c].pc = "failed"

----------------------------------------------------------------------------
(* C8: the event-callback webhook *)

\* C8 as stated: the event-callback POST is made only in runs whose strategy
\* execution succeeded.
C8_CallbackOnlyAfterSuccess ==
  \A c \in Conns :
    Occurs(run[c], "eventCallback")
      => (Occurs(run[c], "executed") /\ ~Occurs(run[c], "threw"))

----------------------------------------------------------------------------
(* C9, C10: rate limiting *)

\* The runs of one submitter that passed the stage counted against one
\* record, with their hit in the window of `period` that starts at time t.
PassesInWindow(pubkey, record, t, period) ==
  {y \in passLog : /\ y.pubkey = pubkey
                   /\ y.record = record
                   /\ y.at >= t
                   /\ y.at < t + period}

\* The run has left the loop of isRateLimited.
LoopDone(r) ==
  /\ Occurs(r, "isRateLimited")
  /\ Len(r.rateLimits) > 0
  /\ (r.pc # "hit" \/ r.idx > Len(r.rateLimits))

\* C9: for every record and submitter, no window of `period` holds more than
\* `rate` submissions that passed the stage; a submission the limiter
\* reported as limited is rejected with "rate-limited: slow down" and goes no
\* further, and one it did not report passes on to the policy stage.
C9_AtMostRatePerWindow ==
  /\ \A x \in passLog :
       Cardinality(PassesInWindow(x.pubkey, x.record, x.at, x.period))
         <= x.rate
  /\ \A c \in Conns :
       LET r == run[c] IN
       (LoopDone(r) /\ r.pc # "hit") =>
         IF \E i \in 1..Len(r.rateLimits) : r.hits[i].n > 0 /\ r.hits[i].limited
           THEN /\ r.pc = "done"
                /\ r.acks = <<createCommandResult(r.event.id, FALSE,
                                                  "rate-limited: slow down")>>
                /\ ~Occurs(r, "canAcceptEvent")
           ELSE /\ Rejection(r) # "rate-limited: slow down"
                /\ \A i \in 1..Len(r.rateLimits) :
                     r.hits[i].n > 0 =>
                       \E y \in passLog :
                         /\ y.pubkey = r.event.pubkey
                         /\ y.record = i
                         /\ y.at = r.hits[i].at

\* A submission is rejected by a record of rate 2 whose window already holds
\* two submissions that passed.
C9_Witness ==
  \E c \in Conns :
    LET r == run[c] IN
    /\ LoopDone(r)
    /\ Rejection(r) = "rate-limited: slow down"
    /\ \E i \in 1..Len(r.rateLimits) :
         /\ r.rateLimits[i].rate = 2
         /\ r.hits[i].limited
         /\ Cardinality({y \in passLog :
                           /\ y.pubkey = r.event.pubkey
                           /\ y.record = i
                           /\ y.at > r.hits[i].at - r.rateLimits[i].period})
              = 2

\* Whether a record's kinds admit the kind, read off the record itself.
KindListed(limit, kind) ==
  \E i \in 1..Len(limit.kinds) :
    limit.kinds[i].lo <= kind /\ kind <= limit.kinds[i].hi

\* C10: when the loop of isRateLimited is over, every record that has no
\* kinds or lists the event's kind was hit exactly once, every other record
\* not at all, and the event is limited iff one of the hits answered true.
C10_EveryApplicableRecordHitOnce ==
  \A c \in Conns :
    LET r == run[c] IN
    LoopDone(r) =>
      /\ \A i \in 1..Len(r.rateLimits) :
           r.hits[i].n =
             IF ~r.rateLimits[i].hasKinds
                  \/ KindListed(r.rateLimits[i], r.event.kind)
               THEN 1 ELSE 0
      /\ Count(r, "hit")
           = Cardinality({i \in 1..Len(r.rateLimits) : r.hits[i].n = 1})
      /\ r.limited <=>
           \E i \in 1..Len(r.rateLimits) : r.hits[i].n = 1 /\ r.hits[i].limited

\* The first record reported the event as limited, the next one was hit all
\* the same and did not, and a record of another kind was left alone.
C10_Witness ==
  \E c \in Conns :
    LET r == run[c] IN
    /\ LoopDone(r)
    /\ Len(r.rateLimits) = 3
    /\ r.hits[1].n = 0
    /\ r.hits[2].n = 1 /\ r.hits[2].limited
    /\ r.hits[3].n = 1 /\ ~r.hits[3].limited
    /\ r.limited

----------------------------------------------------------------------------
(* C11: the bypass whitelists of the rate limiter *)

\* The submitter of the event or the address of the connection is on a
\* whitelist of limits.event.whitelists.
Whitelisted(c, event) ==
  LET lists == settings.limits.event.whitelists IN
  \/ \E i \in 1..Len(lists.pubkeys) : lists.pubkeys[i] = event.pubkey
  \/ \E i \in 1..Len(lists.ipAddresses) :
       lists.ipAddresses[i] = getClientAddress(c)

\* C11: isRateLimited of a whitelisted pubkey or client address issues no
\* hit, leaves every counter of the rate limiter as it was and answers false:
\* the run goes on to the policy stage, is never rejected as rate-limited,
\* and the limiter holds no counter of a whitelisted pubkey, however many
\* events were sent.
C11_WhitelistBypassesLimiter ==
  /\ [][\A c \in Conns :
          (run[c].pc \in {"isRateLimited", "hit"}
             /\ Whitelisted(c, run[c].event) /\ run'[c] # run[c])
            => /\ rateStore' = rateStore
               /\ run[c].pc = "isRateLimited"
               /\ run'[c].pc = "canAcceptEvent"
               /\ ~run'[c].limited]_vars
  /\ [](\A c \in Conns :
          (run[c].pc # "idle" /\ Whitelisted(c, run[c].event))
            => /\ ~Occurs(run[c], "hit")
               /\ Rejection(run[c]) # "rate-limited: slow down"
               /\ \A k \in DOMAIN rateStore :
                    k.pubkey # run[c].event.pubkey)

\* The client's last message, from a whitelisted address, went past the rate
\* limiter and the policy, and the limiter never counted anything.
C11_Witness ==
  \E c \in Conns :
    /\ budget[c] = 0
    /\ Occurs(run[c], "canAcceptEvent")
    /\ Whitelisted(c, run[c].event)
    /\ run[c].event.pubkey = PubA
    /\ rateStore = EmptyStore

----------------------------------------------------------------------------
(* C12: admission gating *)

\* p is a prefix of the string s.
IsPrefix(p, s) == Len(p) <= Len(s) /\ SubSeq(s, 1, Len(p)) = p

\* Payments are enabled and some enabled admission fee schedule has no
\* whitelist prefix matching the submitter.
GatingApplies(event) ==
  /\ settings.payments.enabled
  /\ \E i \in 1..Len(settings.payments.feeSchedules.admission) :
       LET fee == settings.payments.feeSchedules.admission[i] IN
       /\ fee.enabled
       /\ \A j \in 1..Len(fee.whitelists.pubkeys) :
            ~IsPrefix(fee.whitelists.pubkeys[j], event.pubkey)

\* The calls isUserAdmitted makes to the repository.
AdmissionOps ==
  {"findByPubkey", "select", "pubkeyCheck", "upsert", "cacheSet",
   "cacheExpire", "topUpPubkey", "incrementUserBalance"}

\* findByPubkey has returned to isUserAdmitted.
LookupReturned(r) ==
  /\ Occurs(r, "findByPubkey")
  /\ r.pc \notin {"cacheExists", "dbSelect", "fetchUserByWebhook", "upsert",
                  "cacheSet", "cacheExpire"}
  /\ ~\E op \in AdmissionOps \ {"topUpPubkey", "incrementUserBalance"} :
        ThrewAt(r, op)

\* The run has left the admission stage for the event check or beyond.
PastAdmission(r) ==
  \/ r.pc \in {"eventCheck", "strategyFactory", "updateUserBalance",
               "execute", "eventCallback"}
  \/ ReachedStage(r, 6)

\* C12: with gating engaged the repository is consulted, and once it has
\* answered the run goes past admission only with a user record whose
\* isAdmitted is true; with no record or isAdmitted false the run ends with
\* "blocked: pubkey not admitted" and reaches neither the event check nor the
\* strategy.  With gating not engaged the stage passes without any call to
\* the repository.
C12_AdmittedOnlyWithAdmittedUser ==
  \A c \in Conns :
    LET r == run[c] IN
    Occurs(r, "isUserAdmitted") =>
      IF GatingApplies(r.event)
        THEN /\ (~PastAdmission(r) /\ r.pc # "cacheExists")
                  => Occurs(r, "findByPubkey")
             /\ PastAdmission(r)
                  => (LookupReturned(r) /\ r.user.present /\ r.user.isAdmitted)
             /\ (LookupReturned(r) /\ ~(r.user.present /\ r.user.isAdmitted))
                  => /\ r.pc \in {"userLoaded", "done"}
                     /\ r.pc = "done" =>
                          r.acks = <<createCommandResult(
                                       r.event.id, FALSE,
                                       "blocked: pubkey not admitted")>>
                     /\ ~PastAdmission(r)
                     /\ ~StrategyInvoked(r)
        ELSE /\ \A op \in AdmissionOps : ~Occurs(r, op)
             /\ PastAdmission(r)

\* An unknown pubkey the webhook vouched for was stored and its event went
\* through to the strategy.
C12_Witness ==
  \E c \in Conns :
    /\ GatingApplies(run[c].event)
    /\ Occurs(run[c], "upsert")
    /\ run[c].user.isAdmitted
    /\ Occurs(run[c], "executed")

----------------------------------------------------------------------------
(* C13: the minimum balance *)

\* C13 as stated: with gating engaged and a positive minBalance, a run that
\* has just left the admission stage belongs to a submitter whose balance is
\* at least minBalance, on the top-up path too.
C13_MinBalanceEnforced ==
  \A c \in Conns :
    LET r == run[c]
        minBalance == settings.limits.event.pubkey.minBalance
    IN (r.pc = "eventCheck" /\ GatingApplies(r.event) /\ minBalance > 0)
         => /\ users[r.event.pubkey].present
            /\ users[r.event.pubkey].balance >= minBalance

----------------------------------------------------------------------------
(* C14: the publication fee and the top-up *)

\* C14: for an admitted user whose balance is below the enabled publication
\* amount, with gating engaged: the run leaves admission only after a top-up
\* that succeeded, and when its strategy is then invoked the balance is the
\* one found plus the top-up amount minus the publication amount; when the
\* top-up is disabled or refused the run ends with "blocked: insufficient
\* balance" and the balance is the one found.
C14_TopUpArithmetic ==
  \A c \in Conns :
    LET r == run[c]
        p == r.event.pubkey
        publication == settings.payments.feeSchedules.publication[1]
        topUp == settings.payments.feeSchedules.topUp[1]
    IN (/\ GatingApplies(r.event) /\ LookupReturned(r)
        /\ r.user.present /\ r.user.isAdmitted
        /\ publication.enabled /\ r.user.balance < publication.amount)
       => /\ Occurs(r, "toppedUp") =>
               /\ topUp.enabled
               /\ PastAdmission(r)
               /\ Rejection(r) \notin {"blocked: insufficient balance",
                                       "blocked: pubkey not admitted"}
               /\ users[p].present
               /\ ~Occurs(r, "debited")
                    => users[p].balance = r.user.balance + topUp.amount
               /\ StrategyInvoked(r)
                    => users[p].balance
                         = r.user.balance + topUp.amount - publication.amount
          /\ PastAdmission(r) => Occurs(r, "toppedUp")
          /\ ~Occurs(r, "toppedUp") =>
               /\ users[p].present /\ users[p].balance = r.user.balance
               /\ r.pc = "done" =>
                    r.acks = <<createCommandResult(
                                 r.event.id, FALSE,
                                 "blocked: insufficient balance")>>
               /\ (~topUp.enabled /\ r.pc # "userLoaded") => r.pc = "done"

\* An admitted user with balance 0 was topped up by 3, charged 2 and the
\* strategy ran: the balance is 1.
C14_Witness ==
  \E c \in Conns :
    /\ run[c].user.balance = 0
    /\ Occurs(run[c], "toppedUp")
    /\ Occurs(run[c], "executed")
    /\ users[run[c].event.pubkey].balance = 1

----------------------------------------------------------------------------
(* C15: which stages write to the datastore *)

\* C15 as stated: the users table changes only in the step that debits the
\* publication fee.
C15_OnlyFeeDebitWrites ==
  [][users' # users
       => \E c \in Conns : run[c].pc = "updateUserBalance"]_vars

\* C15 amended: the stages before admission never write to the users table;
\* admission writes only by upserting the row of a pubkey the webhook vouched
\* for (an existing row keeps its balance) and by adding the top-up amount to
\* the submitter's balance; the debit
\* of the publication fee is the only step that lowers a balance; every write
\* touches the submitter's row alone.
C15_WritesOfThePipeline ==
  [][users' # users =>
       \E c \in Conns :
         LET r == run[c]
             p == r.event.pubkey
         IN /\ run'[c] # r
            /\ \A q \in Pubkeys \ {p} : users'[q] = users[q]
            /\ \/ /\ r.pc = "upsert"
                  /\ IF users[p].present
                       THEN users'[p].balance = users[p].balance
                       ELSE /\ users'[p].present
                            /\ users'[p].isAdmitted = r.user.isAdmitted
                            /\ users'[p].balance = r.user.balance
               \/ /\ r.pc = "incrementUserBalance"
                  /\ users[p].present
                  /\ users'[p] =
                       [users[p] EXCEPT
                          !.balance = @ + repoSettings.payments.feeSchedules
                                            .topUp[1].amount]
               \/ /\ r.pc = "updateUserBalance"
                  /\ users[p].present
                  /\ users'[p] = [users[p] EXCEPT !.balance = @ - r.fee]]_vars

\* Before any fee was debited the submitter's row has been inserted and
\* topped up by the admission stage.
C15_Witness ==
  \E c \in Conns :
    /\ Occurs(run[c], "upsert")
    /\ Occurs(run[c], "toppedUp")
    /\ ~Occurs(run[c], "updateUserBalance")
    /\ ~run[c].rowAtEntry.present
    /\ users[run[c].event.pubkey].present
    /\ users[run[c].event.pubkey].balance = 3

----------------------------------------------------------------------------
(* C16, C17: the negative-lookup cache *)

\* The cache holds the key <pubkey>:is-blocked: it was set and its
\* time-to-live, if it has one, is not over.
CacheHolds(pubkey) ==
  /\ cache[pubkey].present
  /\ cache[pubkey].expiresAt > 0 => now < cache[pubkey].expiresAt

\* C16: a findByPubkey that finds the key <pubkey>:is-blocked in the cache
\* returns none, or fails, without a datastore query and without a call of
\* the pubkey-check webhook; and a run whose lookup was made while an entry
\* left by an earlier submission was still held has queried neither, and
\* ends with "blocked: pubkey not admitted".
C16_BlockedKeyShortCircuits ==
  /\ [][\A c \in Conns :
          (run[c].pc = "cacheExists" /\ CacheHolds(run[c].event.pubkey)
             /\ run'[c] # run[c])
            => /\ run'[c].pc \in {"userLoaded", "failed"}
               /\ run'[c].pc = "userLoaded" => ~run'[c].user.present
               /\ ~Occurs(run'[c], "select")
               /\ ~Occurs(run'[c], "pubkeyCheck")]_vars
  /\ [](\A c \in Conns :
          LET r == run[c] IN
          (/\ Occurs(r, "findByPubkey") /\ ~ThrewAt(r, "findByPubkey")
           /\ ~Occurs(r, "cacheSet")
           /\ CacheHolds(r.event.pubkey))
            => /\ ~Occurs(r, "select")
               /\ ~Occurs(r, "pubkeyCheck")
               /\ r.pc \in {"userLoaded", "done"}
               /\ r.pc = "done" =>
                    r.acks = <<createCommandResult(
                                 r.event.id, FALSE,
                                 "blocked: pubkey not admitted")>>)

\* Half a minute after the negative lookup of the first submission the second
\* one is rejected from the cache.
C16_Witness ==
  \E c \in Conns :
    /\ RejectedAfter(run[c], "findByPubkey")
    /\ budget[c] = MaxCacheRuns - 2
    /\ now = 1 + BlockedTtl \div 2
    /\ cache[run[c].event.pubkey].expiresAt = 1 + BlockedTtl
    /\ PubkeyCheckConfigured

\* C17 as stated: outside the moment between the two cache calls of
\* findByPubkey, every is-blocked entry has a time-to-live.
C17_BlockedEntryHasTtl ==
  \A p \in Pubkeys :
    (cache[p].present /\ \A c \in Conns : run[c].pc # "cacheExpire")
      => cache[p].expiresAt > 0

----------------------------------------------------------------------------
(* C18: balance updates of a shared pubkey *)

\* C18: under every interleaving of the runs of the connections, the balance
\* of a row is the balance it was created with plus the sum of the increments
\* minus the sum of the decrements applied to it.
C18_NoLostBalanceUpdate ==
  \A p \in Pubkeys :
    users[p].present
      => users[p].balance
           = ledger[p].base + ledger[p].credits - ledger[p].debits

\* Two connections found the same balance 0, both topped it up by 3 and both
\* were charged 2: the balance is 2.
C18_Witness ==
  /\ \A c \in Conns :
       /\ run[c].event.pubkey = PubA
       /\ run[c].user.balance = 0
       /\ Occurs(run[c], "toppedUp")
       /\ Occurs(run[c], "debited")
  /\ ledger[PubA].base = 0
  /\ users[PubA].balance = 2

----------------------------------------------------------------------------
(* C19: the settings snapshot of a run *)

\* C19 as stated: the decisions of a run are those of the settings read at
\* its entry, whatever was reloaded since: a run whose entry snapshot engages
\* admission gating consults the repository, and a run whose entry snapshot
\* enables the publication fee has debited it before its strategy is invoked.
C19_DecisionsFollowEntrySnapshot ==
  \A c \in Conns :
    LET r == run[c]
        snapshot == r.settingsAtEntry
    IN r.pc # "idle" =>
         /\ (PastAdmission(r) /\ AdmissionEngaged(snapshot, r.event))
              => Occurs(r, "findByPubkey")
         /\ (StrategyInvoked(r)
               /\ snapshot.payments.feeSchedules.publication[1].enabled)
              => Occurs(r, "debited")

----------------------------------------------------------------------------
(* C20: the runs of one connection *)

----------------------------------------------------------------------------
(* C21: the answers of GET /user *)

\* C21: a served request is answered 403 when the server key is unset or the
\* token is absent (or empty), otherwise 400 when the pubkey is missing,
\* otherwise 404 when no user has the pubkey, otherwise 200 with the user's
\* balance; so every known user gets 200, a user of balance 0 included.
C21_UserEndpointStatus ==
  http.pc = "responded" =>
    LET known == /\ http.pubkey.value \in Pubkeys
                 /\ users[http.pubkey.value].present
    IN IF MissingKey(env) \/ MissingParam(http.token)
         THEN http.status = 403
         ELSE IF MissingParam(http.pubkey)
                THEN http.status = 400
                ELSE IF ~known
                       THEN http.status = 404
                       ELSE /\ http.status = 200
                            /\ http.body.balance =
                                 users[http.pubkey.value].balance

----------------------------------------------------------------------------
(* C22: only negative lookups are cached *)

\* C22: a findByPubkey that got an affirmative answer of the webhook and
\* stored it has left a row for the pubkey and has set no is-blocked entry,
\* and none is held; a later findByPubkey of a pubkey that has a row returns
\* that row from the datastore, with no call of the webhook, no upsert and no
\* cache write; and a lookup sets the blocked entry only after its datastore
\* query found no row and the webhook gave it no admitted user.
C22_OnlyNegativeResultsCached ==
  \A c \in Conns :
    LET r == run[c]
        p == r.event.pubkey
    IN r.pc # "idle" =>
         /\ (Occurs(r, "upsert") /\ ~ThrewAt(r, "upsert"))
              => /\ Occurs(r, "pubkeyCheck")
                 /\ ~r.rowAtEntry.present
                 /\ users[p].present
                 /\ users[p].isAdmitted
                 /\ ~Occurs(r, "cacheSet")
                 /\ ~CacheHolds(p)
         /\ (LookupReturned(r) /\ r.rowAtEntry.present)
              => /\ Occurs(r, "select")
                 /\ r.user = r.rowAtEntry
                 /\ ~Occurs(r, "pubkeyCheck")
                 /\ ~Occurs(r, "upsert")
                 /\ ~Occurs(r, "cacheSet")
         /\ Occurs(r, "cacheSet")
              => /\ Occurs(r, "select")
                 /\ ~r.rowAtEntry.present
                 /\ ~users[p].present
                 /\ ~r.user.present
                 /\ ~Occurs(r, "upsert")
                 /\ PubkeyCheckConfigured => Occurs(r, "pubkeyCheck")

\* The row an earlier lookup stored from the webhook's answer is what the
\* next lookup of that pubkey returns.
C22_Witness ==
  \E c \in Conns :
    /\ run[c].event.pubkey = PubA
    /\ budget[c] < MaxCacheRuns - 1
    /\ run[c].rowAtEntry.present
    /\ run[c].rowAtEntry.balance = 3
    /\ ledger[PubA].base = 3
    /\ LookupReturned(run[c])
    /\ run[c].user = users[PubA]
    /\ ~cache[PubA].present

----------------------------------------------------------------------------
(* C23: upsert *)

\* C23: an upsert that succeeds inserts the row of its argument when the
\* table has no row of that pubkey, created and updated at the time of the
\* call; when a row exists it stays the row of that pubkey with its balance
\* and its created_at, whatever balance the argument carries, and takes
\* is_admitted, tos_accepted_at and updated_at from the call.  No other row
\* changes.
C23_UpsertKeepsBalanceOnConflict ==
  [][\A c \in Conns :
       (run[c].pc = "upsert" /\ run'[c].pc = "userLoaded")
         => LET p == run[c].event.pubkey
                user == run[c].user
            IN /\ \A q \in Pubkeys \ {p} : users'[q] = users[q]
               /\ IF users[p].present
                    THEN /\ users'[p].present
                         /\ users'[p].balance = users[p].balance
                         /\ users'[p].createdAt = users[p].createdAt
                         /\ users'[p].isAdmitted = user.isAdmitted
                         /\ users'[p].tosAcceptedAt = now
                         /\ users'[p].updatedAt = now
                    ELSE users'[p] =
                           Row(user.isAdmitted, user.balance, now, now, now)]_vars

\* A lookup that had found no row upserted a user of balance 3 after another
\* connection had inserted the row with balance 0 at an earlier time: the row
\* keeps balance 0 and its created_at, and is updated at the later time.
C23_Witness ==
  \E c \in Conns :
    LET p == run[c].event.pubkey
    IN /\ Occurs(run[c], "upsert") /\ ~ThrewAt(run[c], "upsert")
       /\ run[c].user.balance = 3
       /\ users[p].present
       /\ users[p].balance = 0
       /\ ledger[p] = [base |-> 0, credits |-> 0, debits |-> 0]
       /\ users[p].createdAt < users[p].updatedAt
       /\ users[p].updatedAt = now

----------------------------------------------------------------------------
(* C24: the policy evaluator *)

\* The kind is an exact entry of the list or lies in one of its ranges.
KindIn(kinds, kind) ==
  \E i \in 1..Len(kinds) : kinds[i].lo <= kind /\ kind <= kinds[i].hi

\* The content record is on, applies to the event's kind, and is exceeded.
ContentExceeded(event, record) ==
  /\ record.maxLength > 0
  /\ record.hasKinds => KindIn(record.kinds, event.kind)
  /\ event.contentLength > record.maxLength

\* The checks of the evaluator in their order, each with whether the event
\* violates it and the reason it gives; the content records come first, in
\* the order of the configuration.
PolicyChecks(event, limits, t) ==
  [i \in 1..Len(limits.content.items) |->
     [violated |-> ContentExceeded(event, limits.content.items[i]),
      reason |-> "rejected: content is longer than "
                   \o ToString(limits.content.items[i].maxLength)
                   \o " bytes"]]
  \o
  <<[violated |-> /\ limits.createdAt.maxPositiveDelta > 0
                  /\ event.created_at - t > limits.createdAt.maxPositiveDelta,
     reason |-> "rejected: created_at is more than "
                  \o ToString(limits.createdAt.maxPositiveDelta)
                  \o " seconds in the future"],
    [violated |-> /\ limits.createdAt.maxNegativeDelta > 0
                  /\ t - event.created_at > limits.createdAt.maxNegativeDelta,
     reason |-> "rejected: created_at is more than "
                  \o ToString(limits.createdAt.maxNegativeDelta)
                  \o " seconds in the past"],
    [violated |-> /\ limits.eventId.minLeadingZeroBits > 0
                  /\ LeadingZeroBits(event.id)
                       < limits.eventId.minLeadingZeroBits,
     reason |-> "pow: difficulty " \o ToString(LeadingZeroBits(event.id))
                  \o "<" \o ToString(limits.eventId.minLeadingZeroBits)],
    [violated |-> /\ limits.pubkey.minLeadingZeroBits > 0
                  /\ LeadingZeroBits(event.pubkey)
                       < limits.pubkey.minLeadingZeroBits,
     reason |-> "pow: pubkey difficulty "
                  \o ToString(LeadingZeroBits(event.pubkey))
                  \o "<" \o ToString(limits.pubkey.minLeadingZeroBits)],
    [violated |-> /\ limits.pubkey.whitelist # <<>>
                  /\ \A i \in 1..Len(limits.pubkey.whitelist) :
                       ~IsPrefix(limits.pubkey.whitelist[i], event.pubkey),
     reason |-> "blocked: pubkey not allowed"],
    [violated |-> \E i \in 1..Len(limits.pubkey.blacklist) :
                    IsPrefix(limits.pubkey.blacklist[i], event.pubkey),
     reason |-> "blocked: pubkey not allowed"],
    [violated |-> /\ limits.kind.whitelist # <<>>
                  /\ ~KindIn(limits.kind.whitelist, event.kind),
     reason |-> "blocked: event kind " \o ToString(event.kind)
                  \o " not allowed"],
    [violated |-> KindIn(limits.kind.blacklist, event.kind),
     reason |-> "blocked: event kind " \o ToString(event.kind)
                  \o " not allowed"]>>

\* C24: the evaluator rejects with the reason of the first violated check in
\* the order content records, future skew, past skew, event-id proof of work,
\* pubkey proof of work, pubkey allowlist, pubkey denylist, kind allowlist,
\* kind denylist, and accepts exactly when no check is violated; a limit of 0
\* or an empty list switches its check off, and a content record with kinds
\* applies only to the kinds it lists.
C24_FirstViolatedCheckGivesReason ==
  \A c \in Conns :
    LET r == run[c]
        checks == PolicyChecks(r.event, settings.limits.event, now)
        violated == {i \in 1..Len(checks) : checks[i].violated}
    IN Occurs(r, "canAcceptEvent") =>
         /\ violated = {} =>
              /\ Occurs(r, "isUserAdmitted") \/ r.pc = "isUserAdmitted"
              /\ ~RejectedAfter(r, "canAcceptEvent")
         /\ \A i \in violated :
              (\A j \in violated : i <= j)
                => /\ RejectedAfter(r, "canAcceptEvent")
                   /\ r.acks = <<createCommandResult(r.event.id, FALSE,
                                                      checks[i].reason)>>

\* An event of kind 2 and length 5, too far in the past, of a denied pubkey
\* and a denied kind, is rejected for the first of the two content records
\* it exceeds.
C24_Witness ==
  \E c \in Conns :
    LET r == run[c]
        limits == settings.limits.event
    IN /\ RejectedAfter(r, "canAcceptEvent")
       /\ r.event.kind = 2 /\ r.event.contentLength = 5
       /\ r.event.created_at = 1 /\ r.event.pubkey = PubA
       /\ Len(limits.content.items) = 2
       /\ limits.createdAt.maxNegativeDelta = 2
       /\ limits.pubkey.blacklist # <<>>
       /\ limits.kind.whitelist = <<>>
       /\ r.acks = <<createCommandResult(
                       r.event.id, FALSE,
                       "rejected: content is longer than 4 bytes")>>

----------------------------------------------------------------------------
(* C25: balances *)

\* C25: no row of the users table ever has a negative balance.
C25_BalanceNeverNegative ==
  \A p \in Pubkeys : users[p].present => users[p].balance >= 0

----------------------------------------------------------------------------
(* C26: what consumes the rate-limit counters *)

\* C26: a counter changes only by the hit of a run whose event is valid and
\* unexpired and whose submitter is not whitelisted, and that hit counts the
\* present moment into one key; a run that has left the rate-limiting stage
\* has been counted once against every record that applies to its kind and
\* its hits stay counted whatever the run's outcome (rejected by the policy
\* evaluator, by admission, by the event check or for want of a strategy,
\* accepted, or failed); a run rejected as rate-limited is itself among the
\* hits of a key whose count exceeds the rate; runs rejected as invalid or
\* expired have hit no counter.
C26_CountersConsumedBeforeOutcome ==
  /\ [][rateStore' # rateStore =>
          \E c \in Conns :
            LET r == run[c]
                key == RateKey(r.event.pubkey, r.rateLimits[r.idx])
            IN /\ r.pc = "hit" /\ run'[c] # r
               /\ r.event.idMatches /\ r.event.signatureVerifies
               /\ ~(r.event.expiration # 0 /\ r.event.expiration <= now)
               /\ ~Whitelisted(c, r.event)
               /\ KindListed(r.rateLimits[r.idx], r.event.kind)
                    \/ ~r.rateLimits[r.idx].hasKinds
               /\ Len(rateStore'[key]) >= 1
               /\ rateStore'[key][Len(rateStore'[key])] = now
               /\ \A k \in DOMAIN rateStore \ {key} :
                    rateStore'[k] = rateStore[k]]_vars
  /\ [](\A c \in Conns :
          LET r == run[c]
              applicable == {i \in 1..Len(r.rateLimits) :
                               \/ ~r.rateLimits[i].hasKinds
                               \/ KindListed(r.rateLimits[i], r.event.kind)}
              key(i) == RateKey(r.event.pubkey, r.rateLimits[i])
          IN /\ LoopDone(r) =>
                  /\ Count(r, "hit") = Cardinality(applicable)
                  /\ \A i \in applicable :
                       /\ r.hits[i].n = 1
                       /\ key(i) \in DOMAIN rateStore
                       /\ \E j \in 1..Len(rateStore[key(i)]) :
                            rateStore[key(i)][j] = r.hits[i].at
             /\ RejectedAfter(r, "hit") =>
                  \E i \in applicable :
                    /\ Len(rateStore[key(i)]) > r.rateLimits[i].rate
                    /\ rateStore[key(i)][Len(rateStore[key(i)])] = r.hits[i].at
             /\ (\/ RejectedAfter(r, "isEventValid")
                 \/ RejectedAfter(r, "isExpiredEvent")) => ~Occurs(r, "hit"))

\* A submission was rejected by the policy evaluator after its hit had been
\* counted: the counter of its key holds it.
C26_Witness ==
  \E c \in Conns :
    LET r == run[c]
        key == RateKey(r.event.pubkey, r.rateLimits[1])
    IN /\ RejectedAfter(r, "canAcceptEvent")
       /\ Count(r, "hit") = 1
       /\ key \in DOMAIN rateStore
       /\ rateStore[key] = <<r.hits[1].at>>
       /\ ~r.limited


=============================================================================
